---- MODULE Spec2Model ----
(***************************************************************************)
(* Model of the self-healing deployment controller (othaime-en/mana):     *)
(* the webhook endpoint of orchestrator/src/api.py and the decision       *)
(* engine of orchestrator/src/orchestrator.py.                            *)
(*                                                                         *)
(* Spec      one controller process.  deployment_webhook is a coroutine   *)
(*           with no suspension point, so the event loop runs each        *)
(*           webhook to completion: one action per webhook.                *)
(* SpecConc  two controller processes sharing the store; every access to  *)
(*           the store is a step of its own.                               *)
(***************************************************************************)
EXTENDS Integers, Sequences, FiniteSets, Bags, TLC

\* Python's None where a string is expected: an absent value, a missing key.
None == "None"
\* None where a DeploymentState or its stored JSON object is expected.
Absent == [absent |-> TRUE]

(***************************************************************************)
(* Bounds of the model.                                                    *)
(***************************************************************************)
\* failure reports are accepted while the persisted retry_count is below this
MaxCount == 4
\* failure reports the controller processes of SpecConc take in all
MaxReports == 3

DeploymentIds == {"d1"}
Namespaces == {"production"}
Apps == {"sample-app"}
Versions == {"v1", "v2"}
RunIds == {"run1", "run2"}
Workers == {"w1", "w2"}

(***************************************************************************)
(* Enumerations: member name -> stored string value.                       *)
(***************************************************************************)
DeploymentStatus ==
    [PENDING |-> "pending", IN_PROGRESS |-> "in_progress", SUCCESS |-> "success",
     FAILED |-> "failed", ROLLING_BACK |-> "rolling_back",
     ROLLED_BACK |-> "rolled_back", RETRY_SCHEDULED |-> "retry_scheduled"]

FailureType ==
    [BUILD_FAILURE |-> "build_failure", TEST_FAILURE |-> "test_failure",
     DEPLOYMENT_FAILURE |-> "deployment_failure",
     HEALTH_CHECK_FAILURE |-> "health_check_failure", TIMEOUT |-> "timeout"]

\* Enum(value): the member with that value; the call raises ValueError when
\* there is none (EnumHas is false).
EnumValues(enum) == {enum[m] : m \in DOMAIN enum}
EnumHas(enum, value) == value \in EnumValues(enum)
EnumOf(enum, value) == CHOOSE m \in DOMAIN enum : enum[m] = value

(***************************************************************************)
(* Configuration: OrchestratorConfig defaults of the backoff curve.        *)
(***************************************************************************)
initial_backoff == 10
max_backoff == 300
backoff_multiplier == 2

\* The configurations of the model, <<max_retries, rollback_threshold>>: the
\* defaults (threshold below max_retries), and two small ones with the
\* threshold at and above max_retries.  validate() admits each (both >= 1).
RetryConfigs == {<<3, 2>>, <<1, 1>>, <<1, 2>>}
\* GITHUB_TOKEN and GITHUB_REPO, <<set, set>>: both, or one of them missing
Credentials == {<<TRUE, TRUE>>, <<FALSE, TRUE>>, <<TRUE, FALSE>>}

VARIABLES
    cfg,                \* [max_retries, rollback_threshold, github_token,
                        \* github_repo]: set at start-up
    redis_deployment,   \* key deployment:<id> -> stored JSON object, or Absent
    redis_last_successful, \* key last_successful:<ns>:<app> -> version, or None
    tasks,              \* CI re-run tasks created and not yet run: a bag
    posted,             \* run id -> number of re-run requests sent to the CI provider
    last,               \* what the most recent webhook did and answered
    streak,             \* deployment_id -> [n, ok, run, retries]: n failure
                        \* reports were handled since its state was absent; ok:
                        \* each carried a run id and no other webhook touched
                        \* the state in between; run: the run id of the latest
                        \* report that carried one; retries: the reports
                        \* answered 'retry'
    ctx,                \* SpecConc: worker -> position and local variables
    hc,                 \* SpecHealth: a call of check_deployment_health, its
                        \* position and local variables
    fn,                 \* SpecPure: the call just made, its arguments and result
    sd,                 \* SpecShutdown: the demo workload's shutdown manager
    app                 \* SpecApp: the demo workload, its clock and requests

vars == <<cfg, redis_deployment, redis_last_successful, tasks, posted, last,
          streak, ctx, hc, fn, sd, app>>

(***************************************************************************)
(* Dictionaries (metadata): functions on a finite set of keys.             *)
(***************************************************************************)
EmptyDict == [k \in {} |-> None]
DictGet(d, k) == IF k \in DOMAIN d THEN d[k] ELSE None
DictUpdate(d, e) ==
    [k \in (DOMAIN d) \cup (DOMAIN e) |-> IF k \in DOMAIN e THEN e[k] ELSE d[k]]

\* the metadata a webhook can carry
PayloadMetadata == {EmptyDict} \cup {[k \in {"workflow_run_id"} |-> r] : r \in RunIds}

(***************************************************************************)
(* calculate_backoff                                                       *)
(***************************************************************************)
RECURSIVE Pow(_, _)
Pow(b, e) == IF e <= 0 THEN 1 ELSE b * Pow(b, e - 1)

Min(a, b) == IF a <= b THEN a ELSE b

\* Faulty variant of Backoff: the exponent is the retry count itself.
Backoff_ExponentN(self, retry_count) ==
    Min(self.initial_backoff * Pow(self.backoff_multiplier, retry_count),
        self.max_backoff)

\* the method on an orchestrator `self` with these three settings
Backoff(self, retry_count) ==
    Min(self.initial_backoff * Pow(self.backoff_multiplier, retry_count - 1),
        self.max_backoff)

DefaultBackoff ==
    [initial_backoff |-> initial_backoff, backoff_multiplier |-> backoff_multiplier,
     max_backoff |-> max_backoff]

calculate_backoff(retry_count) == Backoff(DefaultBackoff, retry_count)

(***************************************************************************)
(* save_deployment_state / get_deployment_state                            *)
(***************************************************************************)
\* asdict(state) with the enumerations replaced by their values; an absent
\* failure_type is left as it is.
Serialize(state) ==
    [state EXCEPT !.status = DeploymentStatus[state.status],
                  !.failure_type = IF state.failure_type # None
                                   THEN FailureType[state.failure_type]
                                   ELSE None]

\* Faulty variant of Deserialize: failure_type is left as its string.
Deserialize_KeepsStrings(data) ==
    [data EXCEPT !.status = EnumOf(DeploymentStatus, data.status)]

Deserialize(data) ==
    [data EXCEPT !.status = EnumOf(DeploymentStatus, data.status),
                 !.failure_type = IF data.failure_type # None
                                  THEN EnumOf(FailureType, data.failure_type)
                                  ELSE None]

\* Faulty variant of save_deployment_state: the store counts, as an atomic increment
\* of the stored retry_count would.
save_deployment_state_AtomicCount(store, state) ==
    [store EXCEPT ![state.deployment_id] =
        Serialize([state EXCEPT !.retry_count =
            IF store[state.deployment_id] = Absent THEN @
            ELSE IF store[state.deployment_id].retry_count >= @
                 THEN store[state.deployment_id].retry_count + 1 ELSE @])]

save_deployment_state(store, state) ==
    [store EXCEPT ![state.deployment_id] = Serialize(state)]

get_deployment_state(store, deployment_id) ==
    IF store[deployment_id] # Absent THEN Deserialize(store[deployment_id]) ELSE Absent

(***************************************************************************)
(* get_previous_version                                                    *)
(***************************************************************************)
Reverse(s) == [i \in 1..Len(s) |-> s[Len(s) + 1 - i]]
\* Faulty variant of HasVersionLabel: replica sets are not filtered.
HasVersionLabel_Any(v) == TRUE

HasVersionLabel(v) == v # None

\* What list_namespaced_replica_set answers when it raises ApiException.
ApiException == <<"ApiException">>

\* rs: the answer of list_namespaced_replica_set, the version labels of the
\* replica sets, oldest first (None: a replica set with no version label).
get_previous_version(markers, rs, namespace, deployment_name) ==
    LET cached_version == markers[<<namespace, deployment_name>>]
        versioned_rs == SelectSeq(rs, HasVersionLabel)
        sorted_rs == Reverse(versioned_rs)
    IN  IF cached_version # None THEN cached_version
        ELSE IF rs = ApiException THEN None
        ELSE IF Len(versioned_rs) = 0 THEN None
        ELSE IF Len(sorted_rs) >= 2 THEN sorted_rs[2]
        ELSE None

\* Faulty variant of save_successful_deployment_version: a marker already
\* there is kept.
save_successful_deployment_version_KeepsFirst(markers, namespace, deployment_name, version) ==
    IF markers[<<namespace, deployment_name>>] # None THEN markers
    ELSE [markers EXCEPT ![<<namespace, deployment_name>>] = version]

save_successful_deployment_version(markers, namespace, deployment_name, version) ==
    [markers EXCEPT ![<<namespace, deployment_name>>] = version]

(***************************************************************************)
(* handle_deployment_failure                                               *)
(***************************************************************************)
\* Faulty variant of LoadState: a stored state with no previous version has
\* it resolved again.
LoadState_ResolvesAgain(store, markers, rs, p) ==
    LET loaded == get_deployment_state(store, p.deployment_id)
        resolved == get_previous_version(markers, rs, p.namespace, p.app_name)
        state == IF loaded # Absent
                 THEN [loaded EXCEPT !.previous_version =
                          IF @ = None THEN resolved ELSE @]
                 ELSE [deployment_id |-> p.deployment_id,
                       namespace |-> p.namespace,
                       app_name |-> p.app_name,
                       version |-> p.version,
                       status |-> "FAILED",
                       previous_version |-> resolved,
                       retry_count |-> 0,
                       failure_type |-> EnumOf(FailureType, p.failure_type),
                       metadata |-> EmptyDict]
    IN  [state EXCEPT !.retry_count = @ + 1,
                      !.failure_type = EnumOf(FailureType, p.failure_type)]

\* Get or create the deployment state, then count the failure (lines 793-810).
LoadState(store, markers, rs, p) ==
    LET loaded == get_deployment_state(store, p.deployment_id)
        state == IF loaded # Absent THEN loaded
                 ELSE [deployment_id |-> p.deployment_id,
                       namespace |-> p.namespace,
                       app_name |-> p.app_name,
                       version |-> p.version,
                       status |-> "FAILED",
                       previous_version |->
                           get_previous_version(markers, rs, p.namespace,
                                                p.app_name),
                       retry_count |-> 0,
                       failure_type |-> EnumOf(FailureType, p.failure_type),
                       metadata |-> EmptyDict]
    IN  [state EXCEPT !.retry_count = @ + 1,
                      !.failure_type = EnumOf(FailureType, p.failure_type)]

\* Faulty variants of Branch: a missing run id does not stop the retry; the rollback
\* test comes first; the threshold is inclusive; max_retries is not consulted.
Branch_IgnoresRunId(state) ==
    IF state.retry_count <= cfg.max_retries THEN "retry"
    ELSE IF state.retry_count > cfg.rollback_threshold
            /\ state.previous_version # None
         THEN "rollback"
         ELSE "alert_no_previous"

Branch_RollbackFirst(state) ==
    IF state.retry_count > cfg.rollback_threshold /\ state.previous_version # None
    THEN "rollback"
    ELSE IF state.retry_count <= cfg.max_retries
         THEN IF DictGet(state.metadata, "workflow_run_id") = None
              THEN "alert_no_run" ELSE "retry"
         ELSE "alert_no_previous"

Branch_ThresholdInclusive(state) ==
    IF state.retry_count <= cfg.max_retries
    THEN IF DictGet(state.metadata, "workflow_run_id") = None
         THEN "alert_no_run" ELSE "retry"
    ELSE IF state.retry_count >= cfg.rollback_threshold
            /\ state.previous_version # None
         THEN "rollback"
         ELSE "alert_no_previous"

Branch_RetryWithoutLimit(state) ==
    IF DictGet(state.metadata, "workflow_run_id") # None THEN "retry"
    ELSE IF state.retry_count <= cfg.max_retries THEN "alert_no_run"
    ELSE IF state.retry_count > cfg.rollback_threshold
            /\ state.previous_version # None
         THEN "rollback"
         ELSE "alert_no_previous"

\* The decision (lines 813, 819, 881, 923) on the counted state.
Branch(state) ==
    IF state.retry_count <= cfg.max_retries
    THEN IF DictGet(state.metadata, "workflow_run_id") = None
         THEN "alert_no_run" ELSE "retry"
    ELSE IF state.retry_count > cfg.rollback_threshold
            /\ state.previous_version # None
         THEN "rollback"
         ELSE "alert_no_previous"

\* Faulty variant of FirstStatus: the rollback branch skips RollingBack.
FirstStatus_NoRollingBack(branch) ==
    CASE branch = "retry" -> "RETRY_SCHEDULED"
      [] branch = "alert_no_run" -> "FAILED"
      [] branch = "rollback" -> "ROLLED_BACK"
      [] branch = "alert_no_previous" -> "FAILED"

\* Faulty variant of FirstStatus: an alert for a missing run id leaves the
\* status of a scheduled retry.
FirstStatus_AlertAsRetry(branch) ==
    CASE branch = "retry" -> "RETRY_SCHEDULED"
      [] branch = "alert_no_run" -> "RETRY_SCHEDULED"
      [] branch = "rollback" -> "ROLLING_BACK"
      [] branch = "alert_no_previous" -> "FAILED"

\* The status each branch persists first (lines 826, 858, 888, 929).
FirstStatus(branch) ==
    CASE branch = "retry" -> "RETRY_SCHEDULED"
      [] branch = "alert_no_run" -> "FAILED"
      [] branch = "rollback" -> "ROLLING_BACK"
      [] branch = "alert_no_previous" -> "FAILED"

\* The outcomes of the call of rollback_deployment: it returns True or False,
\* or an error that is no ApiException leaves it.
RollbackOutcomes == {"success", "failure", "error"}

\* Faulty variant of RollbackStatus: the result of the rollback is not looked at.
RollbackStatus_IgnoresResult(rb) == "ROLLED_BACK"

\* The status persisted once rollback_deployment has returned (lines 898-908).
RollbackStatus(rb) == IF rb = "success" THEN "ROLLED_BACK" ELSE "FAILED"

\* Faulty variant of Interventions: a failed rollback emits no event.
Interventions_SilentRollbackFailure(branch, rb) ==
    CASE branch = "alert_no_run" ->
            <<"Cannot retry - missing workflow_run_id in metadata">>
      [] branch = "alert_no_previous" ->
            <<"No previous version available for rollback">>
      [] OTHER -> << >>

\* The 'manual intervention required' events of the call, by reason.
Interventions(branch, rb) ==
    CASE branch = "alert_no_run" ->
            <<"Cannot retry - missing workflow_run_id in metadata">>
      [] branch = "rollback" /\ rb = "failure" ->
            <<"Rollback failed after exceeding retry threshold">>
      [] branch = "alert_no_previous" ->
            <<"No previous version available for rollback">>
      [] OTHER -> << >>

\* The CI re-run tasks the call creates (lines 863-868).
ScheduledTasks(state, branch) ==
    IF branch = "retry"
    THEN SetToBag({[workflow_run_id |-> DictGet(state.metadata, "workflow_run_id"),
                    backoff_seconds |-> calculate_backoff(state.retry_count)]})
    ELSE EmptyBag

\* A returned dictionary; a key the dictionary does not hold is None, or 0
\* where its value is a number.
NoResult ==
    [action |-> None, retry_count |-> 0, backoff_seconds |-> 0,
     workflow_run_id |-> None, previous_version |-> None]

Result(state, branch, rb) ==
    CASE branch = "retry" ->
            [NoResult EXCEPT !.action = "retry",
                             !.retry_count = state.retry_count,
                             !.backoff_seconds = calculate_backoff(state.retry_count),
                             !.workflow_run_id =
                                 DictGet(state.metadata, "workflow_run_id")]
      [] branch = "rollback" /\ rb = "success" ->
            [NoResult EXCEPT !.action = "rollback",
                             !.previous_version = state.previous_version]
      [] branch = "rollback" /\ rb = "error" -> NoResult
      [] OTHER -> [NoResult EXCEPT !.action = "alert"]

\* The whole call: what it leaves in the store, what it returns and does.
handle_deployment_failure(store, markers, rs, p, rb) ==
    LET state == LoadState(store, markers, rs, p)
        branch == Branch(state)
        first == [state EXCEPT !.status = FirstStatus(branch)]
        final == [state EXCEPT !.status = RollbackStatus(rb)]
        returns == branch # "rollback" \/ rb # "error"
    IN  [store |-> IF branch = "rollback" /\ rb # "error"
                   THEN save_deployment_state(save_deployment_state(store, first), final)
                   ELSE save_deployment_state(store, first),
         raised |-> ~returns,
         result |-> Result(state, branch, rb),
         saved |-> IF branch = "rollback" /\ rb # "error"
                   THEN <<first.status, final.status>> ELSE <<first.status>>,
         rollback_target |-> IF branch = "rollback" THEN state.previous_version ELSE None,
         rollback_result |-> IF branch = "rollback" THEN rb ELSE None,
         interventions |-> Interventions(branch, rb),
         tasks |-> ScheduledTasks(state, branch),
         count |-> state.retry_count,
         run |-> DictGet(state.metadata, "workflow_run_id"),
         prev |-> state.previous_version]

(***************************************************************************)
(* POST /webhook/deployment                                                *)
(***************************************************************************)
PayloadStatus == {"failed", "success", "in_progress"}
\* failure_type: absent, empty, a known type, an unknown one
PayloadFailureType == {None, "", "health_check_failure", "out_of_memory"}

\* `if payload.failure_type`: None and the empty string are false
Falsy(v) == v \in {None, ""}

Payloads ==
    [deployment_id : DeploymentIds, namespace : Namespaces, app_name : Apps,
     version : Versions, status : PayloadStatus, failure_type : PayloadFailureType,
     metadata : PayloadMetadata]

\* The payloads of each branch of the endpoint.  A branch that reads neither
\* failure_type nor metadata is given one value of each.
FailedPayloads ==
    {p \in Payloads : p.status = "failed" /\ ~Falsy(p.failure_type)
                          /\ EnumHas(FailureType, p.failure_type)}
InvalidPayloads ==
    {p \in Payloads : p.status = "failed" /\ ~Falsy(p.failure_type)
                          /\ ~EnumHas(FailureType, p.failure_type)
                          /\ p.metadata = EmptyDict}
SuccessPayloads ==
    {p \in Payloads : p.status = "success" /\ p.failure_type = None
                          /\ p.metadata = EmptyDict}
AcknowledgedPayloads ==
    {p \in Payloads : /\ p.status # "success"
                      /\ p.failure_type = None
                      /\ p.metadata = EmptyDict}
\* status 'failed' with an empty failure_type
EmptyTypePayloads ==
    {p \in Payloads : /\ p.status = "failed"
                      /\ p.failure_type = ""
                      /\ p.metadata = EmptyDict}

\* What the most recent webhook did: its answer and its effects (version:
\* the version a success webhook recorded; failure_type: the failure_type
\* of its payload).
NoLast ==
    [kind |-> None, http |-> 0, deployment_id |-> None, pre |-> None,
     raised |-> FALSE, result |-> NoResult, saved |-> << >>,
     rollback_target |-> None, rollback_result |-> None,
     interventions |-> << >>, scheduled |-> 0,
     count |-> 0, run |-> None, prev |-> None, version |-> None,
     failure_type |-> None]

StoredStatus(store, deployment_id) ==
    IF store[deployment_id] = Absent THEN None ELSE store[deployment_id].status

StoredCount(store, deployment_id) ==
    IF store[deployment_id] = Absent THEN 0 ELSE store[deployment_id].retry_count

\* Faulty variant of MergeMetadata: the stored metadata is replaced by the
\* webhook's.
MergeMetadata_Replaces(store, p) ==
    LET state == get_deployment_state(store, p.deployment_id)
    IN  IF state # Absent
        THEN save_deployment_state(store, [state EXCEPT !.metadata = p.metadata])
        ELSE store

\* lines 183-188: an existing state takes the webhook's metadata
MergeMetadata(store, p) ==
    LET state == get_deployment_state(store, p.deployment_id)
    IN  IF state # Absent
        THEN save_deployment_state(store,
                 [state EXCEPT !.metadata = DictUpdate(@, p.metadata)])
        ELSE store

HasRunId(p) == DictGet(p.metadata, "workflow_run_id") # None

\* status == "failed" with a known failure_type (lines 179-219)
deployment_webhook_failed(p, rs, rb) ==
    /\ p.status = "failed" /\ ~Falsy(p.failure_type)
    /\ EnumHas(FailureType, p.failure_type)
    /\ StoredCount(redis_deployment, p.deployment_id) < MaxCount
    /\ LET h == handle_deployment_failure(MergeMetadata(redis_deployment, p),
                    redis_last_successful, rs, p, rb)
       IN  /\ redis_deployment' = h.store
           /\ tasks' = tasks (+) h.tasks
           /\ last' = [kind |-> "failed",
                       http |-> IF h.raised THEN 500 ELSE 200,
                       deployment_id |-> p.deployment_id,
                       pre |-> StoredStatus(redis_deployment, p.deployment_id),
                       raised |-> h.raised, result |-> h.result, saved |-> h.saved,
                       rollback_target |-> h.rollback_target,
                       rollback_result |-> h.rollback_result,
                       interventions |-> h.interventions,
                       scheduled |-> BagCardinality(h.tasks),
                       count |-> h.count, run |-> h.run, prev |-> h.prev,
                       version |-> None, failure_type |-> p.failure_type]
           /\ streak' = [streak EXCEPT ![p.deployment_id] =
                            [n |-> @.n + 1, ok |-> @.ok /\ HasRunId(p),
                             run |-> IF HasRunId(p)
                                     THEN DictGet(p.metadata, "workflow_run_id")
                                     ELSE @.run,
                             retries |-> IF h.result.action = "retry"
                                         THEN @.retries + 1 ELSE @.retries]]
    /\ UNCHANGED <<cfg, redis_last_successful, posted, ctx, hc, fn, sd, app>>

\* Faulty variant of deployment_webhook_invalid: the stored state is marked
\* failed before the failure_type is converted.
deployment_webhook_invalid_MarksFailed(p) ==
    /\ p.status = "failed" /\ ~Falsy(p.failure_type)
    /\ ~EnumHas(FailureType, p.failure_type)
    /\ LET state == get_deployment_state(redis_deployment, p.deployment_id)
       IN  redis_deployment' =
               IF state # Absent
               THEN save_deployment_state(redis_deployment,
                        [state EXCEPT !.status = "FAILED",
                                      !.retry_count = @ + 1])
               ELSE redis_deployment
    /\ last' = [NoLast EXCEPT !.kind = "invalid", !.http = 500,
                              !.failure_type = p.failure_type,
                              !.deployment_id = p.deployment_id,
                              !.pre = StoredStatus(redis_deployment, p.deployment_id)]
    /\ streak' = [streak EXCEPT ![p.deployment_id] =
                     [@ EXCEPT !.ok = @ /\ redis_deployment[p.deployment_id] = Absent]]
    /\ UNCHANGED <<cfg, redis_last_successful, tasks, posted,
                   ctx, hc, fn, sd, app>>

\* status == "failed" with a failure_type FailureType() rejects: ValueError,
\* answered 500 by the except clause (lines 181, 252-254)
deployment_webhook_invalid(p) ==
    /\ p.status = "failed" /\ ~Falsy(p.failure_type)
    /\ ~EnumHas(FailureType, p.failure_type)
    /\ last' = [NoLast EXCEPT !.kind = "invalid", !.http = 500,
                              !.failure_type = p.failure_type,
                              !.deployment_id = p.deployment_id,
                              !.pre = StoredStatus(redis_deployment, p.deployment_id)]
    /\ streak' = [streak EXCEPT ![p.deployment_id] =
                     [@ EXCEPT !.ok = @ /\ redis_deployment[p.deployment_id] = Absent]]
    /\ UNCHANGED <<cfg, redis_deployment, redis_last_successful, tasks, posted,
                   ctx, hc, fn, sd, app>>

\* Faulty variant of deployment_webhook_success: the success also resets the
\* retry_count of the state.
deployment_webhook_success_ResetsCount(p) ==
    /\ p.status = "success"
    /\ LET state == get_deployment_state(redis_deployment, p.deployment_id)
       IN  /\ redis_deployment' =
                 IF state # Absent
                 THEN save_deployment_state(redis_deployment,
                          [state EXCEPT !.status = "SUCCESS", !.retry_count = 0])
                 ELSE redis_deployment
           /\ last' = [NoLast EXCEPT !.kind = "success", !.http = 200,
                           !.deployment_id = p.deployment_id,
                           !.pre = StoredStatus(redis_deployment, p.deployment_id),
                           !.saved = IF state # Absent THEN <<"SUCCESS">> ELSE << >>,
                           !.version = p.version]
    /\ redis_last_successful' =
           save_successful_deployment_version(redis_last_successful,
               p.namespace, p.app_name, p.version)
    /\ streak' = [streak EXCEPT ![p.deployment_id] =
                     [@ EXCEPT !.ok = @ /\ redis_deployment[p.deployment_id] = Absent]]
    /\ UNCHANGED <<cfg, tasks, posted, ctx, hc, fn, sd, app>>

\* status == "success" (lines 221-242)
deployment_webhook_success(p) ==
    /\ p.status = "success"
    /\ LET state == get_deployment_state(redis_deployment, p.deployment_id)
       IN  /\ redis_deployment' =
                 IF state # Absent
                 THEN save_deployment_state(redis_deployment,
                          [state EXCEPT !.status = "SUCCESS"])
                 ELSE redis_deployment
           /\ last' = [NoLast EXCEPT !.kind = "success", !.http = 200,
                           !.deployment_id = p.deployment_id,
                           !.pre = StoredStatus(redis_deployment, p.deployment_id),
                           !.saved = IF state # Absent THEN <<"SUCCESS">> ELSE << >>,
                           !.version = p.version]
    /\ redis_last_successful' =
           save_successful_deployment_version(redis_last_successful,
               p.namespace, p.app_name, p.version)
    /\ streak' = [streak EXCEPT ![p.deployment_id] =
                     [@ EXCEPT !.ok = @ /\ redis_deployment[p.deployment_id] = Absent]]
    /\ UNCHANGED <<cfg, tasks, posted, ctx, hc, fn, sd, app>>

\* any other webhook is acknowledged (lines 244-250)
deployment_webhook_acknowledged(p) ==
    /\ p.status # "success"
    /\ p.status # "failed" \/ Falsy(p.failure_type)
    /\ last' = [NoLast EXCEPT !.kind = "acknowledged", !.http = 200,
                              !.failure_type = p.failure_type,
                              !.deployment_id = p.deployment_id,
                              !.pre = StoredStatus(redis_deployment, p.deployment_id)]
    /\ streak' = [streak EXCEPT ![p.deployment_id] =
                     [@ EXCEPT !.ok = @ /\ redis_deployment[p.deployment_id] = Absent]]
    /\ UNCHANGED <<cfg, redis_deployment, redis_last_successful, tasks, posted,
                   ctx, hc, fn, sd, app>>

(***************************************************************************)
(* trigger_github_workflow_rerun: a task created by a retry decision runs. *)
(***************************************************************************)
\* Faulty variant of RerunRequests: the credentials are not checked.
RerunRequests_NoCredentialCheck(task) == 1

\* Faulty variant of RerunRequests: a request is sent a second time.
RerunRequests_SentTwice(task) ==
    IF ~cfg.github_token \/ ~cfg.github_repo THEN 0 ELSE 2

\* the requests the task sends to the CI provider: none without credentials
RerunRequests(task) ==
    IF ~cfg.github_token \/ ~cfg.github_repo THEN 0 ELSE 1

trigger_github_workflow_rerun(task) ==
    /\ BagIn(task, tasks)
    /\ tasks' = tasks (-) SetToBag({task})
    /\ posted' = [posted EXCEPT ![task.workflow_run_id] = @ + RerunRequests(task)]
    /\ UNCHANGED <<cfg, redis_deployment, redis_last_successful, last, streak,
                   ctx, hc, fn, sd, app>>

(***************************************************************************)
(* One controller process.                                                 *)
(***************************************************************************)
IdleCtx ==
    [pc |-> "idle", p |-> Absent, state |-> Absent, read |-> 0, decided |-> 0,
     raised |-> FALSE, result |-> NoResult, reports |-> 0]

\* check_deployment_health before it is called; a call that was not made
IdleHc ==
    [pc |-> "idle", timeout |-> 0, now |-> 0, app_health_failures |-> 0,
     polls |-> 0, checks |-> 0, result |-> FALSE, reason |-> None,
     only_unhealthy |-> TRUE, answer |-> None, run |-> 0]
NoCall == [op |-> None]

\* no exit code: the process is running
NoExit == -1

\* GracefulShutdown.__init__: no handler, not shutting down
IdleSd ==
    [shutdown_handlers |-> << >>, is_shutting_down |-> FALSE, pc |-> "running",
     i |-> 0, runs |-> << >>, signals |-> 0, ignored |-> 0, exit_code |-> NoExit]

\* the demo workload: its worker threads and bounds
AppThreads == {"t1", "t2"}
MaxUptime == 3
MaxRequests == 3
\* STARTUP_TIME: no grace period (the default), and one of two seconds
StartupTimes == {0, 2}
\* the X-Request-ID values a client sends
ClientIds == {[src |-> "client", id |-> 1]}
\* str(uuid.uuid4()): the n-th id generated
Uuid(n) == [src |-> "uuid4", id |-> n]

IdleRequest ==
    [pc |-> "idle", path |-> None, header |-> Absent, g_request_id |-> Absent,
     uuid_before |-> 0, logged |-> {}, status_code |-> 0,
     response_id |-> Absent]

\* the demo workload before src/app.py is imported
IdleApp ==
    [up |-> FALSE, startup_time |-> 0, now |-> 0, uuids |-> 0, started |-> 0,
     request_id_var |-> [t \in AppThreads |-> Absent],
     req |-> [t \in AppThreads |-> IdleRequest], ready |-> << >>]

\* What list_namespaced_replica_set can answer.
ReplicaSetAnswers == {ApiException, <<None>>, <<"v1">>, <<None, "v2", "v1">>}

\* The answers and outcomes that can differ for this payload in this state:
\* the replica sets are listed only for a new state with no marker, and
\* rollback_deployment is called only in the rollback branch.
ReplicaSetInputs(p) ==
    IF /\ redis_deployment[p.deployment_id] = Absent
       /\ redis_last_successful[<<p.namespace, p.app_name>>] = None
    THEN ReplicaSetAnswers ELSE {<<None>>}

RollbackInputs(p, rs) ==
    IF Branch(LoadState(MergeMetadata(redis_deployment, p),
                        redis_last_successful, rs, p)) = "rollback"
    THEN RollbackOutcomes ELSE {"success"}

Init ==
    /\ \E rc \in RetryConfigs, cr \in Credentials :
           cfg = [max_retries |-> rc[1], rollback_threshold |-> rc[2],
                  github_token |-> cr[1], github_repo |-> cr[2]]
    /\ redis_deployment = [d \in DeploymentIds |-> Absent]
    /\ redis_last_successful = [k \in Namespaces \X Apps |-> None]
    /\ tasks = EmptyBag
    /\ posted = [r \in RunIds |-> 0]
    /\ last = NoLast
    /\ streak = [d \in DeploymentIds |->
                    [n |-> 0, ok |-> TRUE, run |-> None, retries |-> 0]]
    /\ ctx = [w \in Workers |-> IdleCtx]
    /\ hc = IdleHc
    /\ fn = NoCall
    /\ sd = IdleSd
    /\ app = IdleApp

Next ==
    \/ \E p \in FailedPayloads :
           \E rs \in ReplicaSetInputs(p) :
               \E rb \in RollbackInputs(p, rs) :
                   deployment_webhook_failed(p, rs, rb)
    \/ \E p \in InvalidPayloads : deployment_webhook_invalid(p)
    \/ \E p \in SuccessPayloads : deployment_webhook_success(p)
    \/ \E p \in AcknowledgedPayloads : deployment_webhook_acknowledged(p)
    \/ \E task \in DOMAIN tasks : trigger_github_workflow_rerun(task)

Spec == Init /\ [][Next]_vars

(***************************************************************************)
(* Two controller processes on one store: a failure webhook, one step per  *)
(* access to the store.  ctx[w].state is the local variable `state`.       *)
(***************************************************************************)
RECURSIVE SumReports(_)
SumReports(ws) ==
    IF ws = {} THEN 0
    ELSE LET w == CHOOSE x \in ws : TRUE
         IN  ctx[w].reports + SumReports(ws \ {w})
ReportsTaken == SumReports(Workers)

\* the failure reports of SpecConc: one version, as the race does not read it
ConcPayloads == {p \in FailedPayloads : p.version = "v1"}

\* api.py line 184: the endpoint reads the state
ConcApiGet(w, p) ==
    /\ ctx[w].pc = "idle"
    /\ ReportsTaken < MaxReports
    /\ StoredCount(redis_deployment, p.deployment_id) < MaxCount
    /\ LET state == get_deployment_state(redis_deployment, p.deployment_id)
       IN  ctx' = [ctx EXCEPT ![w] =
                      [IdleCtx EXCEPT !.pc = IF state # Absent THEN "api_save"
                                             ELSE "handler_get",
                                      !.p = p, !.state = state,
                                      !.reports = ctx[w].reports + 1]]
    /\ UNCHANGED <<cfg, redis_deployment, redis_last_successful, tasks, posted,
                   last, streak, hc, fn, sd, app>>

\* api.py lines 187-188: it writes the state back with the metadata merged
ConcApiSave(w) ==
    /\ ctx[w].pc = "api_save"
    /\ redis_deployment' =
           save_deployment_state(redis_deployment,
               [ctx[w].state EXCEPT !.metadata = DictUpdate(@, ctx[w].p.metadata)])
    /\ ctx' = [ctx EXCEPT ![w].pc = "handler_get"]
    /\ UNCHANGED <<cfg, redis_last_successful, tasks, posted, last, streak, hc, fn, sd, app>>

\* orchestrator.py lines 793-810: the handler reads the state and counts
ConcHandlerGet(w, rs) ==
    /\ ctx[w].pc = "handler_get"
    /\ LET state == LoadState(redis_deployment, redis_last_successful, rs, ctx[w].p)
       IN  ctx' = [ctx EXCEPT ![w].pc = "decide", ![w].state = state,
                              ![w].read = StoredCount(redis_deployment,
                                                      ctx[w].p.deployment_id)]
    /\ UNCHANGED <<cfg, redis_deployment, redis_last_successful, tasks, posted,
                   last, streak, hc, fn, sd, app>>

\* lines 813-943 up to the first save of the branch
ConcDecide(w) ==
    /\ ctx[w].pc = "decide"
    /\ LET state == ctx[w].state
           branch == Branch(state)
       IN  /\ redis_deployment' =
                  save_deployment_state(redis_deployment,
                      [state EXCEPT !.status = FirstStatus(branch)])
           /\ tasks' = tasks (+) ScheduledTasks(state, branch)
           /\ ctx' = [ctx EXCEPT
                         ![w].pc = IF branch = "rollback" THEN "rolling_back"
                                   ELSE "done",
                         ![w].decided = state.retry_count,
                         ![w].result = IF branch = "rollback" THEN NoResult
                                       ELSE Result(state, branch, None)]
    /\ UNCHANGED <<cfg, redis_last_successful, posted, last, streak, hc, fn, sd, app>>

\* lines 891-921: rollback_deployment is over
ConcRollbackReturn(w, rb) ==
    /\ ctx[w].pc = "rolling_back"
    /\ redis_deployment' =
           IF rb = "error" THEN redis_deployment
           ELSE save_deployment_state(redis_deployment,
                    [ctx[w].state EXCEPT !.status = RollbackStatus(rb)])
    /\ ctx' = [ctx EXCEPT ![w].pc = "done", ![w].raised = (rb = "error"),
                          ![w].result = Result(ctx[w].state, "rollback", rb)]
    /\ UNCHANGED <<cfg, redis_last_successful, tasks, posted, last, streak, hc, fn, sd, app>>

\* the response is sent; the process takes the next webhook
ConcRespond(w) ==
    /\ ctx[w].pc = "done"
    /\ ctx' = [ctx EXCEPT ![w].pc = "idle"]
    /\ UNCHANGED <<cfg, redis_deployment, redis_last_successful, tasks, posted,
                   last, streak, hc, fn, sd, app>>

ConcReplicaSetInputs(w) ==
    IF /\ redis_deployment[ctx[w].p.deployment_id] = Absent
       /\ redis_last_successful[<<ctx[w].p.namespace, ctx[w].p.app_name>>] = None
    THEN ReplicaSetAnswers ELSE {<<None>>}

NextConc ==
    \/ \E w \in Workers, p \in ConcPayloads : ConcApiGet(w, p)
    \/ \E w \in Workers : ConcApiSave(w)
    \/ \E w \in Workers :
           /\ ctx[w].pc = "handler_get"
           /\ \E rs \in ConcReplicaSetInputs(w) : ConcHandlerGet(w, rs)
    \/ \E w \in Workers : ConcDecide(w)
    \/ \E w \in Workers, rb \in RollbackOutcomes : ConcRollbackReturn(w, rb)
    \/ \E w \in Workers : ConcRespond(w)

\* the re-run tasks are created and never run here: one set of credentials
InitConc == Init /\ cfg.github_token /\ cfg.github_repo

SpecConc == InitConc /\ [][NextConc]_vars

(***************************************************************************)
(* The controller process restarts: SelfHealingOrchestrator.__init__ runs  *)
(* again.  It connects to Redis and to the cluster and reads no deployment *)
(* state; the tasks asyncio.create_task made lived in the old process.     *)
(***************************************************************************)
\* Faulty variant of TasksAfterRestart: start-up re-arms the pending re-runs.
TasksAfterRestart_Rearmed(pending) == pending

\* the re-run tasks the new process holds
TasksAfterRestart(pending) == EmptyBag

restart ==
    /\ tasks' = TasksAfterRestart(tasks)
    /\ last' = [NoLast EXCEPT !.kind = "restart"]
    /\ UNCHANGED <<cfg, redis_deployment, redis_last_successful, posted, streak,
                   ctx, hc, fn, sd, app>>

\* the default thresholds, with the CI credentials set
InitRestart ==
    /\ Init
    /\ cfg.max_retries = 3 /\ cfg.rollback_threshold = 2
    /\ cfg.github_token /\ cfg.github_repo

NextRestart == Next \/ restart

SpecRestart == InitRestart /\ [][NextRestart]_vars

\* The event loop of a process that keeps running resumes every task whose
\* sleep has ended: a pending re-run task is run.
SpecRerunFair ==
    /\ InitRestart /\ [][Next]_vars
    /\ WF_vars(\E task \in DOMAIN tasks : trigger_github_workflow_rerun(task))

(***************************************************************************)
(* POST /rollback: a rollback an operator asks for.                        *)
(***************************************************************************)
RollbackRequests ==
    [namespace : Namespaces, deployment_name : Apps, target_version : Versions]

\* f"manual-rollback-{uuid.uuid4()}": an id no webhook carries
ManualRollbackId == "manual-rollback-uuid4"

\* Faulty variant of manual_rollback: a rollback that succeeded records its
\* target as the successful version.
manual_rollback_RecordsTarget(request, rb) ==
    /\ last' = [NoLast EXCEPT !.kind = "manual_rollback",
                              !.http = IF rb = "success" THEN 200 ELSE 500,
                              !.deployment_id = ManualRollbackId,
                              !.rollback_target = request.target_version,
                              !.rollback_result = rb]
    /\ redis_last_successful' =
           IF rb = "success"
           THEN save_successful_deployment_version(redis_last_successful,
                    request.namespace, request.deployment_name,
                    request.target_version)
           ELSE redis_last_successful
    /\ UNCHANGED <<cfg, redis_deployment, tasks, posted, streak,
                   ctx, hc, fn, sd, app>>

\* rb: what rollback_deployment does, which reads and patches the workload
\* and polls its health, and reads and writes nothing in the store; True is
\* answered 200, False and an exception 500 (lines 265-293)
manual_rollback(request, rb) ==
    /\ last' = [NoLast EXCEPT !.kind = "manual_rollback",
                              !.http = IF rb = "success" THEN 200 ELSE 500,
                              !.deployment_id = ManualRollbackId,
                              !.rollback_target = request.target_version,
                              !.rollback_result = rb]
    /\ UNCHANGED <<cfg, redis_deployment, redis_last_successful, tasks, posted,
                   streak, ctx, hc, fn, sd, app>>

NextManual ==
    \/ Next
    \/ \E request \in RollbackRequests :
           \E rb \in RollbackOutcomes : manual_rollback(request, rb)

SpecManual == InitRestart /\ [][NextManual]_vars

\* All webhooks, and failure webhooks whose failure_type is the empty string.
NextEmptyType ==
    \/ Next
    \/ \E p \in EmptyTypePayloads : deployment_webhook_acknowledged(p)

SpecEmptyType == InitRestart /\ [][NextEmptyType]_vars

(***************************************************************************)
(* A failure webhook during which a read of the state fails.               *)
(* get_deployment_state catches every exception of the read (the cache not *)
(* answering, a record json.loads or the enumerations reject) and returns  *)
(* None, as it does for a key that is not there.                           *)
(***************************************************************************)
\* the reads of one failure webhook: api.py line 184, orchestrator.py line 793
StateReads == {"api", "handler"}
ReadErrors == (SUBSET StateReads) \ {{}}

\* the store as a caller of get_deployment_state sees it when the read fails
\* (lines 358-363)
Unreadable(store, deployment_id) == [store EXCEPT ![deployment_id] = Absent]

\* the store after lines 183-188 of the endpoint, and as the handler's read
\* at line 793 sees it
AfterApi(p, errors) ==
    IF "api" \in errors THEN redis_deployment
    ELSE MergeMetadata(redis_deployment, p)
HandlerSees(p, errors) ==
    IF "handler" \in errors THEN Unreadable(AfterApi(p, errors), p.deployment_id)
    ELSE AfterApi(p, errors)

ReadErrorReplicaSetInputs(p, errors) ==
    IF /\ "handler" \in errors
       /\ redis_last_successful[<<p.namespace, p.app_name>>] = None
    THEN ReplicaSetAnswers ELSE {<<None>>}

ReadErrorRollbackInputs(p, rs, errors) ==
    IF Branch(LoadState(HandlerSees(p, errors), redis_last_successful, rs, p))
           = "rollback"
    THEN RollbackOutcomes ELSE {"success"}

\* status == "failed" with a known failure_type, for a state that is stored,
\* with the reads in `errors` failing.  Every branch of the handler saves the
\* state, so the record the failed read did not show is overwritten.
deployment_webhook_failed_read_error(p, rs, rb, errors) ==
    /\ p.status = "failed" /\ ~Falsy(p.failure_type)
    /\ EnumHas(FailureType, p.failure_type)
    /\ redis_deployment[p.deployment_id] # Absent
    /\ LET h == handle_deployment_failure(HandlerSees(p, errors),
                    redis_last_successful, rs, p, rb)
       IN  /\ redis_deployment' =
                  [AfterApi(p, errors) EXCEPT
                      ![p.deployment_id] = h.store[p.deployment_id]]
           /\ tasks' = tasks (+) h.tasks
           /\ last' = [kind |-> "failed",
                       http |-> IF h.raised THEN 500 ELSE 200,
                       deployment_id |-> p.deployment_id,
                       pre |-> StoredStatus(redis_deployment, p.deployment_id),
                       raised |-> h.raised, result |-> h.result, saved |-> h.saved,
                       rollback_target |-> h.rollback_target,
                       rollback_result |-> h.rollback_result,
                       interventions |-> h.interventions,
                       scheduled |-> BagCardinality(h.tasks),
                       count |-> h.count, run |-> h.run, prev |-> h.prev,
                       version |-> None, failure_type |-> p.failure_type]
           /\ streak' = [streak EXCEPT ![p.deployment_id] =
                            [n |-> @.n + 1, ok |-> FALSE,
                             run |-> IF HasRunId(p)
                                     THEN DictGet(p.metadata, "workflow_run_id")
                                     ELSE @.run,
                             retries |-> IF h.result.action = "retry"
                                         THEN @.retries + 1 ELSE @.retries]]
    /\ UNCHANGED <<cfg, redis_last_successful, posted, ctx, hc, fn, sd, app>>

\* failure reports of one deployment_id, some of them with failing reads
NextReadError ==
    \/ \E p \in FailedPayloads :
           /\ streak[p.deployment_id].n < MaxReports
           /\ \E rs \in ReplicaSetInputs(p) :
                  \E rb \in RollbackInputs(p, rs) :
                      deployment_webhook_failed(p, rs, rb)
    \/ \E p \in FailedPayloads :
           /\ redis_deployment[p.deployment_id] # Absent
           /\ streak[p.deployment_id].n < MaxReports
           /\ \E errors \in ReadErrors :
                  \E rs \in ReadErrorReplicaSetInputs(p, errors) :
                      \E rb \in ReadErrorRollbackInputs(p, rs, errors) :
                          deployment_webhook_failed_read_error(p, rs, rb, errors)
    \/ \E task \in DOMAIN tasks : trigger_github_workflow_rerun(task)

SpecReadError == InitRestart /\ [][NextReadError]_vars

(***************************************************************************)
(* check_deployment_health: one step per pass of the while loop.  Time is  *)
(* in seconds since start_time; hc.now is the time at the loop condition.  *)
(***************************************************************************)
max_app_health_failures == 3
SleepSeconds == 10

\* Longest time one pass takes before it sleeps or returns (the read of the
\* workload and the application check).
MaxPollDuration == 5
PollDurations == {0, MaxPollDuration}

\* the timeouts of the calls: none left, short ones, the default
HealthTimeouts == {-10, 0, 10, 25, 300}

\* What one pass finds: read_namespaced_deployment raises ApiException or
\* another error, or the ready replicas differ from or equal the desired ones
\* and check_application_health answers False or True.
PollAnswers ==
    {"api_exception", "error", "not_ready", "ready_unhealthy", "ready_healthy"}

\* line 390
WhileCondition(now, timeout) == now < timeout

\* Faulty variant of GivesUp: one failure more is allowed.
GivesUp_OneMore(app_health_failures) ==
    app_health_failures > max_app_health_failures

\* line 430
GivesUp(app_health_failures) == app_health_failures >= max_app_health_failures

\* Faulty variant of Sleep: the loop polls twice as often.
Sleep_Half(now) == now + 5

\* line 455
Sleep(now) == now + SleepSeconds

\* Faulty variant of Healthy: ready replicas are enough.
Healthy_ReadinessAlone(answer) == answer \in {"ready_healthy", "ready_unhealthy"}

\* lines 401-403: the replicas are ready and the application check passes
Healthy(answer) == answer = "ready_healthy"

\* Faulty variant of NotReadyFailures: the counter is kept.
NotReadyFailures_Kept(app_health_failures) == app_health_failures

\* line 449
NotReadyFailures(app_health_failures) == 0

check_deployment_health_call(timeout) ==
    /\ hc.pc = "idle"
    /\ hc' = [IdleHc EXCEPT !.pc = "loop", !.timeout = timeout]
    /\ UNCHANGED <<cfg, redis_deployment, redis_last_successful, tasks, posted,
                   last, streak, ctx, fn, sd, app>>

\* lines 391-470: one pass of the loop, dur seconds long
check_deployment_health_poll(answer, dur) ==
    /\ hc.pc = "loop"
    /\ WhileCondition(hc.now, hc.timeout)
    /\ LET failures == hc.app_health_failures + 1
           polled == [hc EXCEPT !.polls = @ + 1,
                                !.only_unhealthy = @ /\ answer = "ready_unhealthy",
                                !.answer = answer,
                                !.run = IF answer = "ready_unhealthy" THEN @ + 1
                                        ELSE IF answer = "not_ready" THEN 0
                                        ELSE @]
       IN  hc' =
             CASE answer = "api_exception" ->
                    [polled EXCEPT !.pc = "returned", !.result = FALSE,
                                   !.reason = "api_error", !.now = @ + dur]
               [] answer = "error" ->
                    [polled EXCEPT !.pc = "raised", !.reason = "error",
                                   !.now = @ + dur]
               [] answer = "not_ready" ->
                    [polled EXCEPT !.app_health_failures = NotReadyFailures(@),
                                   !.now = Sleep(@ + dur)]
               [] Healthy(answer) ->
                    [polled EXCEPT !.pc = "returned", !.result = TRUE,
                                   !.reason = "healthy", !.checks = @ + 1,
                                   !.now = @ + dur]
               [] answer = "ready_unhealthy" ->
                    IF GivesUp(failures)
                    THEN [polled EXCEPT !.pc = "returned", !.result = FALSE,
                                        !.reason = "gave_up", !.checks = @ + 1,
                                        !.app_health_failures = failures,
                                        !.now = @ + dur]
                    ELSE [polled EXCEPT !.app_health_failures = failures,
                                        !.checks = @ + 1,
                                        !.now = Sleep(@ + dur)]
    /\ UNCHANGED <<cfg, redis_deployment, redis_last_successful, tasks, posted,
                   last, streak, ctx, fn, sd, app>>

\* lines 472-496: the loop condition fails
check_deployment_health_timeout ==
    /\ hc.pc = "loop"
    /\ ~WhileCondition(hc.now, hc.timeout)
    /\ hc' = [hc EXCEPT !.pc = "returned", !.result = FALSE, !.reason = "timeout"]
    /\ UNCHANGED <<cfg, redis_deployment, redis_last_successful, tasks, posted,
                   last, streak, ctx, fn, sd, app>>

InitHealth ==
    /\ Init
    /\ cfg.max_retries = 3 /\ cfg.rollback_threshold = 2
    /\ cfg.github_token /\ cfg.github_repo

NextHealth ==
    \/ \E timeout \in HealthTimeouts : check_deployment_health_call(timeout)
    \/ \E answer \in PollAnswers, dur \in PollDurations :
           check_deployment_health_poll(answer, dur)
    \/ check_deployment_health_timeout

SpecHealth == InitHealth /\ [][NextHealth]_vars

\* The loop is sequential code: a pass that can run does run, and each call
\* it makes to the cluster or to a pod returns or raises.
SpecHealthFair == SpecHealth /\ WF_vars(NextHealth)

(***************************************************************************)
(* check_application_health                                                *)
(***************************************************************************)
\* What a pod answers to GET health_path: 200 with {"status": "healthy"}; 200
\* with a JSON object that says otherwise; another status code; 200 with a
\* body that is no JSON; no answer within health_check_timeout; no
\* connection; 200 with JSON that is no object (a list, a string, null).
ProbeAnswers ==
    {"healthy", "unhealthy", "non_200", "non_json", "timeout",
     "connection_error", "not_an_object"}

MaxPods == 2
Pods == [phase : {"Running", "Pending"}, pod_ip : {None, "10.0.0.1"},
         probe : ProbeAnswers]
PodLists == UNION {[1..n -> Pods] : n \in 0..MaxPods}

\* lines 235-275 for one pod: "skip" (not probed), "healthy", "unhealthy"
\* (logged), or "raise": data.get on JSON that is no object raises
\* AttributeError, which none of the handlers inside the loop catches.
ProbePod(pod) ==
    IF pod.phase # "Running" \/ pod.pod_ip = None THEN "skip"
    ELSE CASE pod.probe = "healthy" -> "healthy"
           [] pod.probe = "not_an_object" -> "raise"
           [] OTHER -> "unhealthy"

\* the for loop from pod i on; an error that leaves it is caught at line 287
RECURSIVE CheckPods(_, _, _)
CheckPods(pods, i, healthy_pods) ==
    IF i > Len(pods) THEN healthy_pods > 0
    ELSE LET outcome == ProbePod(pods[i])
         IN  IF outcome = "raise" THEN FALSE
             ELSE CheckPods(pods, i + 1,
                      IF outcome = "healthy" THEN healthy_pods + 1
                      ELSE healthy_pods)

\* list_raises: list_namespaced_pod raises
check_application_health(list_raises, pods) ==
    IF list_raises THEN FALSE
    ELSE IF Len(pods) = 0 THEN FALSE
    ELSE CheckPods(pods, 1, 0)

(***************************************************************************)
(* rollback_deployment                                                     *)
(***************************************************************************)
\* What each step of the call meets: the read and the patch of the workload
\* succeed, raise ApiException or raise another error (the client raises
\* urllib3 errors when the API server cannot be reached); the rewriting of
\* image and labels succeeds or raises (metadata.labels is None);
\* check_deployment_health returns True or False or raises (an error of its
\* own read that is no ApiException).
ClusterCalls == {"ok", "api_exception", "error"}
Rewrites == {"ok", "error"}
HealthResults == {"true", "false", "error"}

\* lines 613-703: only ApiException is caught
rollback_deployment(read, rewrite, patch, health) ==
    CASE read = "api_exception" -> "failure"
      [] read = "error" -> "error"
      [] rewrite = "error" -> "error"
      [] patch = "api_exception" -> "failure"
      [] patch = "error" -> "error"
      [] health = "true" -> "success"
      [] health = "false" -> "failure"
      [] OTHER -> "error"

(***************************************************************************)
(* The demo workload's shutdown manager (GracefulShutdown).                *)
(* A signal handler runs between two instructions of the main thread, so a *)
(* second signal can arrive while the cleanup of the first is running: the *)
(* cleanup is one step for each callable.                                  *)
(***************************************************************************)
\* cleanup callables: their __name__ and whether the call raises an Exception
Callables ==
    {[name |-> "cleanup", raises |-> FALSE], [name |-> "flush", raises |-> TRUE],
     [name |-> "close", raises |-> FALSE]}
MaxHandlers == 3
MaxSignals == 3
Signals == {"SIGTERM", "SIGINT"}

\* list.remove: the first occurrence goes
RemoveFirst(handlers, handler) ==
    LET i == CHOOSE j \in 1..Len(handlers) :
                 /\ handlers[j] = handler
                 /\ \A k \in 1..(j - 1) : handlers[k] # handler
    IN  SubSeq(handlers, 1, i - 1) \o SubSeq(handlers, i + 1, Len(handlers))

register_cleanup(handler) ==
    /\ sd.pc = "running"
    /\ Len(sd.shutdown_handlers) < MaxHandlers
    /\ sd' = [sd EXCEPT !.shutdown_handlers = Append(@, handler)]
    /\ UNCHANGED <<cfg, redis_deployment, redis_last_successful, tasks, posted,
                   last, streak, ctx, hc, fn, app>>

unregister_cleanup(handler) ==
    /\ sd.pc = "running"
    /\ \E j \in 1..Len(sd.shutdown_handlers) : sd.shutdown_handlers[j] = handler
    /\ sd' = [sd EXCEPT !.shutdown_handlers = RemoveFirst(@, handler)]
    /\ UNCHANGED <<cfg, redis_deployment, redis_last_successful, tasks, posted,
                   last, streak, ctx, hc, fn, app>>

\* Faulty variant of AlreadyShuttingDown: the flag is not looked at.
AlreadyShuttingDown_Never(self) == FALSE

AlreadyShuttingDown(self) == self.is_shutting_down

\* _handle_shutdown up to the call of _cleanup
_handle_shutdown(signum) ==
    /\ sd.pc # "exited"
    /\ sd.signals < MaxSignals
    /\ sd' = IF AlreadyShuttingDown(sd)
             THEN [sd EXCEPT !.signals = @ + 1, !.ignored = @ + 1]
             ELSE [sd EXCEPT !.signals = @ + 1, !.is_shutting_down = TRUE,
                             !.pc = "cleanup", !.i = 1,
                             !.runs = Append(@, << >>)]
    /\ UNCHANGED <<cfg, redis_deployment, redis_last_successful, tasks, posted,
                   last, streak, ctx, hc, fn, app>>

\* Faulty variant of NextHandler: the error of a callable ends the loop.
NextHandler_Propagates(handler, i, n) == IF handler.raises THEN n + 1 ELSE i + 1

\* the for loop of _cleanup: an Exception of the callable is logged
NextHandler(handler, i, n) == i + 1

\* _cleanup, one callable; past the last one the signal's run goes on to
\* sys.exit(0), whose process exit runs _cleanup once more as the atexit hook
_cleanup ==
    /\ sd.pc \in {"cleanup", "atexit"}
    /\ LET n == Len(sd.shutdown_handlers)
       IN  sd' = IF sd.i <= n
                 THEN [sd EXCEPT
                          !.runs[Len(sd.runs)] =
                              Append(@, sd.shutdown_handlers[sd.i].name),
                          !.i = NextHandler(sd.shutdown_handlers[sd.i], sd.i, n)]
                 ELSE IF sd.pc = "cleanup"
                 THEN [sd EXCEPT !.pc = "atexit", !.exit_code = 0, !.i = 1,
                                 !.runs = Append(@, << >>)]
                 ELSE [sd EXCEPT !.pc = "exited"]
    /\ UNCHANGED <<cfg, redis_deployment, redis_last_successful, tasks, posted,
                   last, streak, ctx, hc, fn, app>>

\* the controller plays no part: one configuration of it
InitShutdown ==
    /\ Init
    /\ cfg.max_retries = 3 /\ cfg.rollback_threshold = 2
    /\ cfg.github_token /\ cfg.github_repo

NextShutdown ==
    \/ \E handler \in Callables : register_cleanup(handler)
    \/ \E handler \in Callables : unregister_cleanup(handler)
    \/ \E signum \in Signals : _handle_shutdown(signum)
    \/ _cleanup

SpecShutdown == InitShutdown /\ [][NextShutdown]_vars

(***************************************************************************)
(* The demo workload: request ids and /ready.  Each worker thread has its  *)
(* own value of the context variable request_id_var and serves one request *)
(* at a time; the requests of different threads interleave.  The clock is  *)
(* the time since app.start_time, in seconds.                              *)
(***************************************************************************)
Paths == {"/", "/ready"}

\* config = get_config(); app.start_time = time.time()
get_config(startup_time) ==
    /\ ~app.up
    /\ app' = [app EXCEPT !.up = TRUE, !.startup_time = startup_time]
    /\ UNCHANGED <<cfg, redis_deployment, redis_last_successful, tasks, posted,
                   last, streak, ctx, hc, fn, sd>>

\* time passes
tick ==
    /\ app.up
    /\ app.now < MaxUptime
    /\ app' = [app EXCEPT !.now = @ + 1]
    /\ UNCHANGED <<cfg, redis_deployment, redis_last_successful, tasks, posted,
                   last, streak, ctx, hc, fn, sd>>

\* request.headers.get('X-Request-ID', get_request_id()): get_request_id is
\* called whether or not the header is there, and generates an id when the
\* context variable is not set
before_request(t, path, header) ==
    /\ app.up
    /\ app.req[t].pc = "idle"
    /\ app.started < MaxRequests
    /\ LET current == app.request_id_var[t]
           generates == current = Absent
           got == IF generates THEN Uuid(app.uuids + 1) ELSE current
           request_id == IF header # Absent THEN header ELSE got
       IN  app' = [app EXCEPT
                      !.uuids = IF generates THEN @ + 1 ELSE @,
                      !.started = @ + 1,
                      !.request_id_var[t] = request_id,
                      !.req[t] = [pc |-> "view", path |-> path,
                                  header |-> header,
                                  g_request_id |-> request_id,
                                  uuid_before |-> app.uuids,
                                  logged |-> {request_id},
                                  status_code |-> 0, response_id |-> Absent]]
    /\ UNCHANGED <<cfg, redis_deployment, redis_last_successful, tasks, posted,
                   last, streak, ctx, hc, fn, sd>>

\* Faulty variant of NotReady: the grace period includes its last instant.
NotReady_Inclusive(uptime, startup_time) == uptime <= startup_time

NotReady(uptime, startup_time) == uptime < startup_time

\* GET /ready
ready(t) ==
    /\ app.req[t].pc = "view" /\ app.req[t].path = "/ready"
    /\ LET uptime == app.now
           not_ready == NotReady(uptime, app.startup_time)
           answer == IF not_ready
                     THEN [uptime |-> uptime, status_code |-> 503,
                           body |-> "NOT_READY"]
                     ELSE [uptime |-> uptime, status_code |-> 200,
                           body |-> "ready"]
       IN  app' = [app EXCEPT
                      !.ready = Append(@, answer),
                      !.req[t].pc = "after",
                      !.req[t].status_code = answer.status_code,
                      !.req[t].logged =
                          IF not_ready THEN @ \cup {app.request_id_var[t]} ELSE @]
    /\ UNCHANGED <<cfg, redis_deployment, redis_last_successful, tasks, posted,
                   last, streak, ctx, hc, fn, sd>>

\* GET /
index(t) ==
    /\ app.req[t].pc = "view" /\ app.req[t].path = "/"
    /\ app' = [app EXCEPT !.req[t].pc = "after", !.req[t].status_code = 200,
                          !.req[t].logged = @ \cup {app.request_id_var[t]}]
    /\ UNCHANGED <<cfg, redis_deployment, redis_last_successful, tasks, posted,
                   last, streak, ctx, hc, fn, sd>>

\* Faulty variant of clear_request_id: the context variable keeps its value.
clear_request_id_Keeps(request_id) == request_id

\* request_id_var.set(None)
clear_request_id(request_id) == Absent

after_request(t) ==
    /\ app.req[t].pc = "after"
    /\ app' = [app EXCEPT
                  !.req[t].pc = "idle",
                  !.req[t].response_id = app.req[t].g_request_id,
                  !.req[t].logged = @ \cup {app.request_id_var[t]},
                  !.request_id_var[t] = clear_request_id(@)]
    /\ UNCHANGED <<cfg, redis_deployment, redis_last_successful, tasks, posted,
                   last, streak, ctx, hc, fn, sd>>

InitApp == InitShutdown

NextApp ==
    \/ \E startup_time \in StartupTimes : get_config(startup_time)
    \/ tick
    \/ \E t \in AppThreads, path \in Paths, header \in {Absent} \cup ClientIds :
           before_request(t, path, header)
    \/ \E t \in AppThreads : ready(t)
    \/ \E t \in AppThreads : index(t)
    \/ \E t \in AppThreads : after_request(t)

SpecApp == InitApp /\ [][NextApp]_vars

(***************************************************************************)
(* rollback_deployment: the body it patches the workload with.  An image   *)
(* reference is the sequence of its ':'-separated segments.                *)
(***************************************************************************)
MaxContainers == 2
\* repository:tag, the same behind a registry host with a port, and no tag
Images ==
    {<<"sample-app", "v2">>, <<"registry", "5000/sample-app", "v2">>,
     <<"sample-app">>}
ContainerNames == {"sample-app", "sidecar"}
ContainerLists ==
    UNION {[1..n -> [name : ContainerNames, image : Images]] :
               n \in 0..MaxContainers}
\* the workloads read: their containers and their two version labels
Workloads ==
    [containers : ContainerLists, metadata_version : {"v2"},
     template_version : {"v2"}]

\* lines 637-638: container.image.split(':'), then f"{image_parts[0]}:{target_version}"
RewriteImage(image, target_version) == <<image[1], target_version>>

\* lines 635-642
RewriteWorkload(deployment, deployment_name, target_version) ==
    [containers |->
         [i \in 1..Len(deployment.containers) |->
              IF deployment.containers[i].name = deployment_name
              THEN [deployment.containers[i] EXCEPT
                       !.image = RewriteImage(@, target_version)]
              ELSE deployment.containers[i]],
     metadata_version |-> target_version,
     template_version |-> target_version]

(***************************************************************************)
(* The Redis key space: get_recent_deployments and cleanup_old_states.     *)
(* A string is the sequence of its ':'-separated segments, so that         *)
(* "deployment:a:b" is <<"deployment", "a", "b">>; a Redis database is a    *)
(* function from the keys that exist to their values.                      *)
(***************************************************************************)
SecondsPerDay == 86400
MaxDays == 2
Now == MaxDays * SecondsPerDay
DaysToKeep == 0..MaxDays
\* timestamps on both sides of, and on, each cutoff
Timestamps ==
    {d * SecondsPerDay + e : d \in 0..(MaxDays - 1), e \in {0, 1}} \cup {Now}

\* deployment ids: two plain ones and one that contains a ':'
StateIds == {<<"a">>, <<"b">>, <<"a", "b">>}
ListNamespaces == {"production", "staging"}
Limits == {0, 1, 2, 10}

\* f"deployment:{deployment_id}"
StateKey(deployment_id) == <<"deployment">> \o deployment_id
\* f"last_successful:{namespace}:{deployment_name}"
MarkerKey(namespace, deployment_name) ==
    <<"last_successful", namespace, deployment_name>>

\* the databases: any of the states saved, the marker set or not
Databases ==
    {[k \in {StateKey(i) : i \in ids} \cup
            (IF marker = None THEN {} ELSE {MarkerKey("production", "sample-app")})
        |-> IF k[1] = "deployment"
            THEN [deployment_id |-> SubSeq(k, 2, Len(k)),
                  namespace |-> f[SubSeq(k, 2, Len(k))][1],
                  timestamp |-> f[SubSeq(k, 2, Len(k))][2]]
            ELSE marker] :
        ids \in SUBSET StateIds,
        f \in [StateIds -> ListNamespaces \X Timestamps],
        marker \in {None, "v1"}}

\* redis_client.keys("deployment:*"), as a set: Redis returns them in any order
DeploymentKeys(db) == {k \in DOMAIN db : k[1] = "deployment" /\ Len(k) >= 2}

Orders(keys) ==
    {o \in [1..Cardinality(keys) -> keys] :
        \A i, j \in 1..Cardinality(keys) : i # j => o[i] # o[j]}

\* key.split(':')[1]
SplitId(key) == <<key[2]>>

\* list.sort(key=timestamp, reverse=True): stable, ties keep their order
RECURSIVE SortRecent(_)
SortRecent(states) ==
    IF states = << >> THEN << >>
    ELSE LET sorted == SortRecent(SubSeq(states, 1, Len(states) - 1))
             x == states[Len(states)]
             ahead == {i \in 1..Len(sorted) : sorted[i].timestamp >= x.timestamp}
             n == Cardinality(ahead)
         IN  SubSeq(sorted, 1, n) \o <<x>> \o SubSeq(sorted, n + 1, Len(sorted))

\* states[:limit], for limit >= 0
Truncate(states, limit) == SubSeq(states, 1, Min(limit, Len(states)))

RECURSIVE LoadRecent(_, _, _, _)
LoadRecent(db, keys, i, namespace) ==
    IF i > Len(keys) THEN << >>
    ELSE LET key == StateKey(SplitId(keys[i]))
             found == key \in DOMAIN db
         IN  (IF found /\ (namespace = None \/ db[key].namespace = namespace)
              THEN <<db[key]>> ELSE << >>)
             \o LoadRecent(db, keys, i + 1, namespace)

get_recent_deployments(db, keys, namespace, limit) ==
    Truncate(SortRecent(LoadRecent(db, keys, 1, namespace)), limit)

\* Faulty variant of IsOld: a state exactly at the cutoff counts as old.
IsOld_Inclusive(timestamp, cutoff_time) == timestamp <= cutoff_time

IsOld(timestamp, cutoff_time) == timestamp < cutoff_time

cleanup_old_states(db, now, days_to_keep) ==
    LET cutoff_time == now - (days_to_keep * SecondsPerDay)
        old == {k \in DeploymentKeys(db) : IsOld(db[k].timestamp, cutoff_time)}
    IN  [k \in (DOMAIN db) \ old |-> db[k]]

(***************************************************************************)
(* Calls of single methods, on arguments drawn from bounded sets: one call *)
(* in each behaviour.                                                      *)
(***************************************************************************)
DeploymentStates ==
    [deployment_id : DeploymentIds, namespace : Namespaces, app_name : Apps,
     version : {"v1"}, status : DOMAIN DeploymentStatus,
     previous_version : {None} \cup Versions, retry_count : {0, 2},
     failure_type : {None} \cup DOMAIN FailureType, metadata : PayloadMetadata]

MaxReplicaSets == 3
ReplicaSetLists ==
    {ApiException} \cup
    UNION {[1..n -> {None} \cup Versions] : n \in 0..MaxReplicaSets}

\* <<initial_backoff, backoff_multiplier, max_backoff>>: the defaults, three
\* more that validate() admits, and two it rejects
BackoffConfigs ==
    {<<10, 2, 300>>, <<1, 3, 50>>, <<5, 2, 6>>, <<2, 5, 1000>>,
     <<10, 1, 300>>, <<10, 2, 5>>}
MaxRetryCount == 10

\* float('nan'), which from_env's float(os.getenv(...)) returns for "nan":
\* a value outside the numbers used, with every comparison false
NaN == -1000000
FloatLe(a, b) == a # NaN /\ b # NaN /\ a <= b
FloatGt(a, b) == a # NaN /\ b # NaN /\ a > b

\* the settings validate() reads, with from_env's defaults
DefaultConfig ==
    [max_retries |-> 3, rollback_threshold |-> 2,
     initial_backoff |-> initial_backoff, max_backoff |-> max_backoff,
     backoff_multiplier |-> backoff_multiplier,
     health_check_timeout |-> 5, health_check_port |-> 5000]

\* values on both sides of each rule; the floats include NaN
Configs ==
    [max_retries : {0, 1, 3}, rollback_threshold : {0, 1, 2},
     initial_backoff : {0, 10, NaN}, max_backoff : {10, 300, NaN},
     backoff_multiplier : {1, 2, NaN}, health_check_timeout : {0, 5},
     health_check_port : {0, 1, 5000, 65535, 65536}]

\* OrchestratorConfig.validate: the message of the ValueError it raises, or
\* None when it returns
validate(self) ==
    IF self.max_retries < 1 THEN "max_retries must be >= 1"
    ELSE IF self.rollback_threshold < 1 THEN "rollback_threshold must be >= 1"
    ELSE IF FloatLe(self.initial_backoff, 0) THEN "initial_backoff must be > 0"
    ELSE IF FloatLe(self.max_backoff, self.initial_backoff)
         THEN "max_backoff must be > initial_backoff"
    ELSE IF FloatLe(self.backoff_multiplier, 1)
         THEN "backoff_multiplier must be > 1.0"
    ELSE IF self.health_check_timeout <= 0
         THEN "health_check_timeout must be > 0"
    ELSE IF self.health_check_port < 1 \/ self.health_check_port > 65535
         THEN "health_check_port must be between 1-65535"
    ELSE None

\* SelfHealingOrchestrator(use_config=True), with Redis and the cluster
\* configuration at hand: whether the constructor returns
Starts(config) == validate(config) = None

\* get_previous_version consults the replica sets only past the marker
ListsReplicaSets(markers, namespace, deployment_name) ==
    markers[<<namespace, deployment_name>>] = None

call_check_application_health(list_raises, pods) ==
    /\ fn.op = None
    /\ fn' = [op |-> "check_application_health", list_raises |-> list_raises,
              pods |-> pods,
              result |-> check_application_health(list_raises, pods)]
    /\ UNCHANGED <<cfg, redis_deployment, redis_last_successful, tasks, posted,
                   last, streak, ctx, hc, sd, app>>

call_rollback_deployment(read, rewrite, patch, health) ==
    /\ fn.op = None
    /\ fn' = [op |-> "rollback_deployment", read |-> read, rewrite |-> rewrite,
              patch |-> patch, health |-> health,
              result |-> rollback_deployment(read, rewrite, patch, health)]
    /\ UNCHANGED <<cfg, redis_deployment, redis_last_successful, tasks, posted,
                   last, streak, ctx, hc, sd, app>>

call_get_previous_version(marker, rs) ==
    /\ fn.op = None
    /\ LET markers == [k \in Namespaces \X Apps |-> marker]
       IN  fn' = [op |-> "get_previous_version", marker |-> marker, rs |-> rs,
                  listed |-> ListsReplicaSets(markers, "production", "sample-app"),
                  result |-> get_previous_version(markers, rs, "production",
                                                  "sample-app")]
    /\ UNCHANGED <<cfg, redis_deployment, redis_last_successful, tasks, posted,
                   last, streak, ctx, hc, sd, app>>

\* save_deployment_state, then get_deployment_state of the same id
call_save_then_get(state) ==
    /\ fn.op = None
    /\ LET store == save_deployment_state([d \in DeploymentIds |-> Absent], state)
       IN  fn' = [op |-> "save_then_get", state |-> state,
                  stored |-> store[state.deployment_id],
                  result |-> get_deployment_state(store, state.deployment_id)]
    /\ UNCHANGED <<cfg, redis_deployment, redis_last_successful, tasks, posted,
                   last, streak, ctx, hc, sd, app>>

call_calculate_backoff(c, retry_count) ==
    /\ fn.op = None
    /\ LET self == [initial_backoff |-> c[1], backoff_multiplier |-> c[2],
                    max_backoff |-> c[3]]
       IN  fn' = [op |-> "calculate_backoff", self |-> self,
                  retry_count |-> retry_count,
                  result |-> Backoff(self, retry_count)]
    /\ UNCHANGED <<cfg, redis_deployment, redis_last_successful, tasks, posted,
                   last, streak, ctx, hc, sd, app>>

call_get_recent_deployments(db, keys, namespace, limit) ==
    /\ fn.op = None
    /\ fn' = [op |-> "get_recent_deployments", db |-> db, keys |-> keys,
              namespace |-> namespace, limit |-> limit,
              result |-> get_recent_deployments(db, keys, namespace, limit)]
    /\ UNCHANGED <<cfg, redis_deployment, redis_last_successful, tasks, posted,
                   last, streak, ctx, hc, sd, app>>

call_cleanup_old_states(db, days_to_keep) ==
    /\ fn.op = None
    /\ fn' = [op |-> "cleanup_old_states", db |-> db, now |-> Now,
              days_to_keep |-> days_to_keep,
              result |-> cleanup_old_states(db, Now, days_to_keep)]
    /\ UNCHANGED <<cfg, redis_deployment, redis_last_successful, tasks, posted,
                   last, streak, ctx, hc, sd, app>>

\* rollback_deployment of sample-app up to its patch_namespaced_deployment
call_rollback_patch(deployment, target_version) ==
    /\ fn.op = None
    /\ fn' = [op |-> "rollback_patch", deployment |-> deployment,
              deployment_name |-> "sample-app",
              target_version |-> target_version,
              body |-> RewriteWorkload(deployment, "sample-app", target_version)]
    /\ UNCHANGED <<cfg, redis_deployment, redis_last_successful, tasks, posted,
                   last, streak, ctx, hc, sd, app>>

call_validate(config) ==
    /\ fn.op = None
    /\ fn' = [op |-> "validate", config |-> config, result |-> validate(config),
              starts |-> Starts(config)]
    /\ UNCHANGED <<cfg, redis_deployment, redis_last_successful, tasks, posted,
                   last, streak, ctx, hc, sd, app>>

InitPure ==
    /\ Init
    /\ cfg.max_retries = 3 /\ cfg.rollback_threshold = 2
    /\ cfg.github_token /\ cfg.github_repo

NextPure ==
    \/ /\ fn.op = None
       /\ \E list_raises \in BOOLEAN, pods \in PodLists :
              call_check_application_health(list_raises, pods)
    \/ /\ fn.op = None
       /\ \E read \in ClusterCalls, rewrite \in Rewrites, patch \in ClusterCalls,
             health \in HealthResults :
              call_rollback_deployment(read, rewrite, patch, health)
    \/ /\ fn.op = None
       /\ \E marker \in {None} \cup Versions, rs \in ReplicaSetLists :
              call_get_previous_version(marker, rs)
    \/ /\ fn.op = None
       /\ \E state \in DeploymentStates : call_save_then_get(state)
    \/ /\ fn.op = None
       /\ \E c \in BackoffConfigs, retry_count \in 1..MaxRetryCount :
              call_calculate_backoff(c, retry_count)
    \/ /\ fn.op = None
       /\ \E db \in Databases, namespace \in {None} \cup ListNamespaces,
             limit \in Limits :
              \E keys \in Orders(DeploymentKeys(db)) :
                  call_get_recent_deployments(db, keys, namespace, limit)
    \/ /\ fn.op = None
       /\ \E db \in Databases, days_to_keep \in DaysToKeep :
              call_cleanup_old_states(db, days_to_keep)
    \/ /\ fn.op = None
       /\ \E config \in Configs : call_validate(config)
    \/ /\ fn.op = None
       /\ \E deployment \in Workloads, target_version \in Versions :
              call_rollback_patch(deployment, target_version)

SpecPure == InitPure /\ [][NextPure]_vars

(***************************************************************************)
(* Properties.  Under Spec, `last` describes the webhook just answered; an *)
(* invariant over `last` therefore speaks of every webhook of every run.   *)
(***************************************************************************)
LastFailed == last.kind = "failed"
Stored == redis_deployment[last.deployment_id]
StartedRollback ==
    \/ last.rollback_target # None
    \/ \E i \in 1..Len(last.saved) : last.saved[i] = "ROLLING_BACK"
NoCredentials == ~cfg.github_token \/ ~cfg.github_repo
Defaults == cfg.max_retries = 3 /\ cfg.rollback_threshold = 2

\* C1: with max_retries=3 and rollback_threshold=2, of four consecutive
\* failure webhooks with a run id for a deployment_id that had no state, the
\* first three are answered retry with retry_count 1, 2, 3 and backoff
\* 10, 20, 40, and the fourth rollback or alert (rollback only with a
\* previous version).
C1_ThreeRetriesThenRollback ==
    (LastFailed /\ Defaults /\ streak[last.deployment_id].ok) =>
        LET n == streak[last.deployment_id].n
        IN  /\ n \in 1..3 =>
                /\ last.result.action = "retry"
                /\ last.result.retry_count = n
                /\ last.result.backoff_seconds =
                       (CASE n = 1 -> 10 [] n = 2 -> 20 [] n = 3 -> 40)
            /\ n = 4 =>
                /\ last.result.action \in {"rollback", "alert"}
                /\ last.result.action = "rollback" => last.prev # None

\* C2: a failure report with a run id for a deployment_id with no persisted
\* state is answered retry with retry_count 1 and backoff initial_backoff, and
\* the state persisted has status RetryScheduled and retry_count 1.
C2_FirstFailureRetries ==
    (LastFailed /\ last.pre = None /\ streak[last.deployment_id].ok) =>
        /\ last.result.action = "retry"
        /\ last.result.retry_count = 1
        /\ last.result.backoff_seconds = initial_backoff
        /\ Stored.status = "retry_scheduled"
        /\ Stored.retry_count = 1

C5_RollbackOnlyAfterMaxRetries ==
    (LastFailed /\ StartedRollback) =>
        /\ last.count > cfg.max_retries
        /\ last.count > cfg.rollback_threshold
        /\ last.prev # None

C5_Witness ==
    /\ LastFailed /\ StartedRollback /\ Defaults
    /\ last.saved[1] = "ROLLING_BACK" /\ last.rollback_target # None

\* C6 as stated: with rollback_threshold >= max_retries the handler never
\* takes the rollback branch.
C6_NeverRollsBack ==
    (cfg.rollback_threshold >= cfg.max_retries) => ~(LastFailed /\ StartedRollback)

\* C6 amended: with rollback_threshold >= max_retries a failure report takes
\* the rollback branch exactly when its counted retry_count is above
\* rollback_threshold and a previous version is known; a report counted above
\* max_retries and not above rollback_threshold is answered alert.
C6_RollbackAboveThreshold ==
    (LastFailed /\ cfg.rollback_threshold >= cfg.max_retries) =>
        /\ StartedRollback <=>
               (last.count > cfg.rollback_threshold /\ last.prev # None)
        /\ (last.count > cfg.max_retries /\ last.count <= cfg.rollback_threshold) =>
               last.result.action = "alert"

C6_Witness ==
    /\ LastFailed /\ cfg.rollback_threshold > cfg.max_retries
    /\ StartedRollback /\ last.count = cfg.rollback_threshold + 1

\* C7 as stated: without the CI token or the owner/repo identifier, a report
\* in the retry branch with a run id is answered alert and RetryScheduled is
\* not persisted.
C7_NoCredentialsAlerts ==
    (/\ NoCredentials /\ LastFailed
     /\ last.count <= cfg.max_retries /\ last.run # None) =>
        /\ last.result.action = "alert"
        /\ \A i \in 1..Len(last.saved) : last.saved[i] # "RETRY_SCHEDULED"

\* C7 amended: without the CI token or the owner/repo identifier, a report in
\* the retry branch with a run id is still answered retry, RetryScheduled is
\* persisted and the task is created; the task sends no re-run request.
C7_NoCredentialsStillRetries ==
    NoCredentials =>
        /\ \A r \in RunIds : posted[r] = 0
        /\ (LastFailed /\ last.count <= cfg.max_retries /\ last.run # None) =>
               /\ last.result.action = "retry"
               /\ last.saved = <<"RETRY_SCHEDULED">>
               /\ last.scheduled = 1
               /\ last.interventions = << >>

C7_Witness ==
    /\ NoCredentials /\ LastFailed /\ last.result.action = "retry"
    /\ Stored.status = "retry_scheduled" /\ tasks = EmptyBag

\* The chain of statuses of the deployment_id over the webhook just answered:
\* the status before it, then each status it persisted.
StatusChain ==
    <<last.pre>> \o [i \in 1..Len(last.saved) |-> DeploymentStatus[last.saved[i]]]

StateMachine ==
    {<<"pending", "in_progress">>, <<"pending", "retry_scheduled">>,
     <<"in_progress", "success">>, <<"in_progress", "failed">>,
     <<"retry_scheduled", "success">>, <<"retry_scheduled", "failed">>,
     <<"failed", "rolling_back">>,
     <<"rolling_back", "rolled_back">>, <<"rolling_back", "failed">>}

TerminalStatus == {"success", "rolled_back", "failed"}

\* C9 as stated: once the persisted status of a deployment_id is Success,
\* RolledBack or Failed, no later webhook changes it, schedules a retry or
\* starts a rollback.
C9_Terminal ==
    [][\A d \in DeploymentIds :
          StoredStatus(redis_deployment, d) \in TerminalStatus =>
              /\ StoredStatus(redis_deployment, d)' = StoredStatus(redis_deployment, d)
              /\ BagCardinality(tasks') <= BagCardinality(tasks)]_vars

\* C9 amended: Success, RolledBack and Failed are not terminal.  From them the
\* status changes, a retry is scheduled or a rollback starts only by a later
\* failure report, which is counted (retry_count + 1) and decided like any
\* other, or the status becomes Success by a success webhook; a retry is
\* scheduled only while the stored retry_count is below max_retries.
C9_LeftOnlyByReports ==
    [][\A d \in DeploymentIds :
          StoredStatus(redis_deployment, d) \in TerminalStatus =>
              /\ (\/ StoredStatus(redis_deployment, d)' # StoredStatus(redis_deployment, d)
                  \/ BagCardinality(tasks') > BagCardinality(tasks)) =>
                     \/ /\ last'.kind = "failed" /\ last'.deployment_id = d
                        /\ StoredCount(redis_deployment, d)' =
                               StoredCount(redis_deployment, d) + 1
                     \/ /\ last'.kind = "success" /\ last'.deployment_id = d
                        /\ StoredStatus(redis_deployment, d)' = "success"
                        /\ tasks' = tasks
              /\ BagCardinality(tasks') > BagCardinality(tasks) =>
                     StoredCount(redis_deployment, d) < cfg.max_retries]_vars

C9_Witness ==
    /\ LastFailed /\ last.pre \in TerminalStatus
    /\ last.result.action = "retry" /\ Stored.status = "retry_scheduled"

\* C10: when two failure reports handled concurrently both read retry_count n,
\* both decide on n + 1 and both persist n + 1: once both are handled the
\* persisted retry_count has grown by one, not two.
C10_LostUpdate ==
    \A w1, w2 \in Workers :
        (/\ w1 # w2
         /\ ctx[w1].pc = "done" /\ ctx[w2].pc = "done"
         /\ ctx[w1].p.deployment_id = ctx[w2].p.deployment_id
         /\ ctx[w1].read = ctx[w2].read) =>
            /\ ctx[w1].decided = ctx[w1].read + 1
            /\ ctx[w2].decided = ctx[w1].read + 1
            /\ StoredCount(redis_deployment, ctx[w1].p.deployment_id) =
                   ctx[w1].read + 1

C10_Witness ==
    /\ ctx["w1"].pc = "done" /\ ctx["w2"].pc = "done"
    /\ ctx["w1"].read = 1 /\ ctx["w2"].read = 1
    /\ ctx["w1"].result.action = "retry" /\ ctx["w2"].result.action = "retry"
    /\ StoredCount(redis_deployment, "d1") = 2

\* C11: a restart of the controller between the scheduling of a retry and the
\* end of its backoff loses the re-run: the new process holds no task, the
\* persisted state keeps its status (RetryScheduled), and a re-run request is
\* only ever sent by a task the running process holds, so the lost one is
\* never sent.
C11_RestartLosesRetry ==
    [][/\ last'.kind = "restart" =>
              /\ tasks' = EmptyBag
              /\ posted' = posted
              /\ redis_deployment' = redis_deployment
       /\ posted' # posted =>
              \E task \in DOMAIN tasks :
                  /\ tasks' = tasks (-) SetToBag({task})
                  /\ posted' = [posted EXCEPT ![task.workflow_run_id] = @ + 1]]_vars

C11_Witness ==
    /\ last.kind = "restart" /\ tasks = EmptyBag
    /\ StoredStatus(redis_deployment, "d1") = "retry_scheduled"
    /\ StoredCount(redis_deployment, "d1") = 2
    /\ \A r \in RunIds : posted[r] = 0

HcReturned == hc.pc = "returned"

\* C12 as stated: with the replicas ready and the application check failing
\* at every poll, check_deployment_health returns false when its failure
\* counter reaches 3, after exactly three application checks and before the
\* timeout elapses, for the default timeout (300 s) and for a 10 s timeout.
C12_GivesUpBeforeTimeout ==
    (HcReturned /\ hc.only_unhealthy /\ hc.timeout \in {10, 300}) =>
        /\ hc.result = FALSE
        /\ hc.reason = "gave_up"
        /\ hc.app_health_failures = 3 /\ hc.checks = 3
        /\ hc.now < hc.timeout

\* C12 amended: with the replicas ready and the application check failing at
\* every poll, check_deployment_health returns false; it does so by its
\* failure counter reaching 3, after exactly three application checks, when
\* the third poll starts before the timeout, which takes a timeout above two
\* sleeps plus the time of the first two polls (so for the default 300 s, well
\* before the timeout); with a timeout of at most two sleeps (such as 10 s:
\* one application check) it returns false by timeout after fewer than three
\* checks.
C12_GivesUpWhenThirdPollStarts ==
    (HcReturned /\ hc.only_unhealthy /\ hc.timeout > 0) =>
        /\ hc.result = FALSE
        /\ hc.reason \in {"gave_up", "timeout"}
        /\ hc.reason = "gave_up" =>
               /\ hc.app_health_failures = 3 /\ hc.checks = 3
               /\ hc.timeout > 2 * SleepSeconds
        /\ hc.reason = "timeout" =>
               /\ hc.checks < 3 /\ hc.checks = hc.polls
               /\ hc.now >= hc.timeout
               /\ hc.timeout <= 2 * (SleepSeconds + MaxPollDuration)
        /\ hc.timeout = 300 => hc.reason = "gave_up" /\ hc.now < hc.timeout
        /\ hc.timeout = 10 => hc.reason = "timeout" /\ hc.checks = 1

C12_Witness ==
    /\ HcReturned /\ hc.only_unhealthy /\ hc.timeout = 10
    /\ hc.reason = "timeout" /\ hc.checks = 1 /\ hc.result = FALSE

\* ceil(timeout / 10), and 0 when timeout <= 0
MaxPolls(timeout) ==
    IF timeout <= 0 THEN 0 ELSE (timeout + SleepSeconds - 1) \div SleepSeconds

C14_Bounded ==
    /\ hc.polls <= MaxPolls(hc.timeout)
    /\ (HcReturned /\ hc.reason = "timeout") =>
           /\ hc.result = FALSE
           /\ hc.now >= hc.timeout
    /\ (HcReturned /\ hc.reason \notin {"healthy", "gave_up", "api_error"}) =>
           hc.reason = "timeout"

C13_HealthyIffOnePodHealthy ==
    (fn.op = "check_application_health" /\ ~fn.list_raises) =>
        (fn.result <=>
            \E i \in 1..Len(fn.pods) :
                /\ fn.pods[i].phase = "Running"
                /\ fn.pods[i].pod_ip # None
                /\ fn.pods[i].probe = "healthy")

\* the indices of the replica sets that carry a version label
Labelled(rs) == {i \in 1..Len(rs) : rs[i] # None}

C17_RollbackNeverRaises ==
    fn.op = "rollback_deployment" =>
        /\ fn.result \in {"success", "failure"}
        /\ fn.result = "success" <=>
               /\ fn.read = "ok" /\ fn.rewrite = "ok" /\ fn.patch = "ok"
               /\ fn.health = "true"

\* C19: save_deployment_state followed by get_deployment_state of the same
\* id returns a state equal in every field, for every status, failure_type
\* (present or absent), previous_version (present or absent) and metadata:
\* status and failure_type are stored as their strings and come back as the
\* same members, and an absent failure_type stays absent.
C19_RoundTrip ==
    fn.op = "save_then_get" =>
        /\ fn.result = fn.state
        /\ fn.stored.status = DeploymentStatus[fn.state.status]
        /\ fn.state.failure_type # None =>
               fn.stored.failure_type = FailureType[fn.state.failure_type]
        /\ fn.state.failure_type = None =>
               (fn.stored.failure_type = None /\ fn.result.failure_type = None)

C19_Witness ==
    /\ fn.op = "save_then_get"
    /\ fn.state.status = "ROLLING_BACK" /\ fn.stored.status = "rolling_back"
    /\ fn.state.failure_type = None /\ fn.state.previous_version = None
    /\ fn.state.metadata # EmptyDict
    /\ fn.result = fn.state

\* C20: calculate_backoff(n) = min(initial_backoff * multiplier^(n-1),
\* max_backoff) for n >= 1; under a configuration validate() admits it is
\* non-decreasing in n, strictly increasing until the clamp, never below
\* initial_backoff and never above max_backoff; with the defaults
\* 1 -> 10, 2 -> 20, 3 -> 40, 10 -> 300.
C20_Backoff ==
    fn.op = "calculate_backoff" =>
        LET self == fn.self
            n == fn.retry_count
            previous == Backoff(self, n - 1)
        IN  /\ fn.result = Min(self.initial_backoff
                                   * Pow(self.backoff_multiplier, n - 1),
                               self.max_backoff)
            /\ validate([DefaultConfig EXCEPT
                             !.initial_backoff = self.initial_backoff,
                             !.max_backoff = self.max_backoff,
                             !.backoff_multiplier = self.backoff_multiplier])
                   = None =>
                   /\ fn.result >= self.initial_backoff
                   /\ fn.result <= self.max_backoff
                   /\ n > 1 => previous <= fn.result
                   /\ (n > 1 /\ previous < self.max_backoff) =>
                          previous < fn.result
            /\ self = DefaultBackoff =>
                   /\ n = 1 => fn.result = 10
                   /\ n = 2 => fn.result = 20
                   /\ n = 3 => fn.result = 40
                   /\ n = 10 => fn.result = 300
                   /\ fn.result = calculate_backoff(n)

C20_Witness ==
    /\ fn.op = "calculate_backoff" /\ fn.self = DefaultBackoff
    /\ fn.retry_count = 10 /\ fn.result = 300

\* C16: a success webhook sets the successful-version marker of its
\* namespace+app to its version, whatever the marker was, and nothing else
\* changes the marker, so the marker is the version of the most recent success
\* webhook; a state that exists for the deployment_id gets status Success with
\* every other field unchanged, and no state is created when none exists.
C16_SuccessRecordsVersion ==
    [][/\ redis_last_successful' # redis_last_successful => last'.kind = "success"
       /\ (/\ last'.kind = "success"
           /\ <<last, redis_deployment, redis_last_successful>>'
                  # <<last, redis_deployment, redis_last_successful>>) =>
              LET d == last'.deployment_id
              IN  /\ \A k \in Namespaces \X Apps :
                         redis_last_successful'[k] = last'.version
                  /\ last'.version \in Versions
                  /\ redis_deployment[d] = Absent =>
                         redis_deployment' = redis_deployment
                  /\ redis_deployment[d] # Absent =>
                         redis_deployment' =
                             [redis_deployment EXCEPT ![d].status = "success"]
                  /\ tasks' = tasks /\ posted' = posted]_vars

C16_Witness ==
    /\ last.kind = "success" /\ last.pre = "retry_scheduled"
    /\ Stored.status = "success" /\ Stored.retry_count = 2
    /\ Stored.previous_version = "v1"
    /\ last.version = "v2"
    /\ redis_last_successful[<<"production", "sample-app">>] = "v2"

\* C18: every return of handle_deployment_failure with action 'alert'
\* (missing workflow run id, rollback failed, no rollback possible) comes with
\* exactly one 'manual intervention required' event of the same call, with a
\* reason; a return with action 'retry' or 'rollback' comes with none.
C18_AlertHasOneIntervention ==
    (LastFailed /\ ~last.raised) =>
        /\ last.result.action \in {"alert", "retry", "rollback"}
        /\ last.result.action = "alert" =>
               /\ Len(last.interventions) = 1
               /\ last.interventions[1] =
                      (IF last.count <= cfg.max_retries
                       THEN "Cannot retry - missing workflow_run_id in metadata"
                       ELSE IF last.rollback_result = "failure"
                       THEN "Rollback failed after exceeding retry threshold"
                       ELSE "No previous version available for rollback")
        /\ last.result.action \in {"retry", "rollback"} =>
               last.interventions = << >>

C18_Witness ==
    /\ LastFailed /\ ~last.raised /\ last.result.action = "alert"
    /\ last.rollback_result = "failure"
    /\ last.interventions = <<"Rollback failed after exceeding retry threshold">>

\* C21: cleanup_old_states(days_to_keep) deletes exactly the deployment-state
\* keys whose stored timestamp is older than now - days_to_keep * 86400 and
\* leaves every newer state and every successful-version marker as it was.
C21_CleanupDeletesOldStatesOnly ==
    fn.op = "cleanup_old_states" =>
        LET cutoff == fn.now - fn.days_to_keep * 86400
        IN  \A k \in DOMAIN fn.db :
                IF k[1] = "deployment" /\ fn.db[k].timestamp < cutoff
                THEN k \notin DOMAIN fn.result
                ELSE k \in DOMAIN fn.result /\ fn.result[k] = fn.db[k]

\* a state exactly at the cutoff and the marker are kept, an older state goes
C21_Witness ==
    /\ fn.op = "cleanup_old_states" /\ fn.days_to_keep = 1
    /\ StateKey(<<"a">>) \in DOMAIN fn.db
    /\ fn.db[StateKey(<<"a">>)].timestamp = fn.now - 86400
    /\ StateKey(<<"a">>) \in DOMAIN fn.result
    /\ StateKey(<<"b">>) \in DOMAIN fn.db
    /\ StateKey(<<"b">>) \notin DOMAIN fn.result
    /\ MarkerKey("production", "sample-app") \in DOMAIN fn.result

\* the persisted states that get_recent_deployments is asked for
Persisted(db, namespace) ==
    {db[k] : k \in {j \in DOMAIN db : /\ j[1] = "deployment"
                                      /\ namespace \in {None, db[j].namespace}}}

\* C22: get_recent_deployments(namespace, limit) returns every persisted
\* deployment state (of the namespace, when one is given), each exactly once,
\* by timestamp descending, cut to the first limit entries, whatever
\* characters the deployment ids contain.
C22_RecentListsEveryStateOnce ==
    fn.op = "get_recent_deployments" =>
        LET all == Persisted(fn.db, fn.namespace)
            r == fn.result
        IN  /\ Len(r) = Min(fn.limit, Cardinality(all))
            /\ \A i \in 1..Len(r) : r[i] \in all
            /\ \A i, j \in 1..Len(r) : i # j => r[i] # r[j]
            /\ \A i, j \in 1..Len(r) : i < j => r[i].timestamp >= r[j].timestamp
            /\ \A x \in all :
                   (\A i \in 1..Len(r) : r[i] # x) =>
                       \A i \in 1..Len(r) : r[i].timestamp >= x.timestamp

\* the __name__ of each registered callable, in registration order
HandlerNames ==
    [j \in 1..Len(sd.shutdown_handlers) |-> sd.shutdown_handlers[j].name]

\* C23: on a termination signal every registered cleanup callable is run, in
\* registration order, also those registered after one that raises, and the
\* process then exits with code 0.
C23_AllCallablesRunThenExit0 ==
    /\ sd.pc \in {"atexit", "exited"} =>
           /\ sd.exit_code = 0
           /\ sd.runs[1] = HandlerNames
    /\ sd.pc = "exited" => \A r \in 1..Len(sd.runs) : sd.runs[r] = HandlerNames
    /\ sd.pc \in {"running", "cleanup"} => sd.exit_code = NoExit

C23_Witness ==
    /\ sd.pc = "exited" /\ sd.exit_code = 0
    /\ HandlerNames = <<"cleanup", "flush", "close">>
    /\ sd.shutdown_handlers[2].raises
    /\ sd.runs[1] = <<"cleanup", "flush", "close">>

\* C24: a termination signal that arrives while is_shutting_down is set is
\* ignored: it starts no run of the cleanup callables, does not disturb the
\* run in progress and does not itself end the process.
C24_SecondSignalIgnored ==
    [][(sd.is_shutting_down /\ sd'.signals # sd.signals) =>
           sd' = [sd EXCEPT !.signals = @ + 1, !.ignored = @ + 1]]_vars

\* two signals were ignored, one while the callables were running
C24_Witness ==
    /\ sd.pc = "exited" /\ sd.signals = 3 /\ sd.ignored = 2
    /\ Len(sd.shutdown_handlers) = 2
    /\ sd.runs = <<HandlerNames, HandlerNames>>

\* C25: /ready answers 503 NOT_READY to every request made while the uptime
\* is below the startup grace period and 200 'ready' to every request made
\* once the uptime has reached it; so no 503 follows a 200, and with a grace
\* period of 0 the first request is answered 200.
C25_ReadyAfterGracePeriod ==
    /\ \A i \in 1..Len(app.ready) :
           IF app.ready[i].uptime < app.startup_time
           THEN app.ready[i].status_code = 503 /\ app.ready[i].body = "NOT_READY"
           ELSE app.ready[i].status_code = 200 /\ app.ready[i].body = "ready"
    /\ \A i, j \in 1..Len(app.ready) :
           (i < j /\ app.ready[i].status_code = 200) =>
               app.ready[j].status_code = 200
    /\ (app.startup_time = 0 /\ app.ready # << >>) =>
           app.ready[1].status_code = 200

\* a 503 below the grace period, then a 200 at the instant it is reached
C25_Witness ==
    /\ app.startup_time = 2 /\ Len(app.ready) = 3
    /\ app.ready[1].status_code = 503 /\ app.ready[1].uptime = 1
    /\ app.ready[2].status_code = 200 /\ app.ready[2].uptime = 2
    /\ app.ready[3].status_code = 200

\* the requests that were answered, and those that are being served
Answered(t) == app.req[t].pc = "idle" /\ app.req[t].response_id # Absent
InFlight(t) == app.req[t].pc \in {"view", "after"}

\* C26: the X-Request-ID of a response is the client's X-Request-ID when one
\* was sent, and otherwise an id generated for this request; the context
\* variable is cleared after each response, and a request is stamped with and
\* logs under its own id only, however the requests interleave.
C26_RequestIdIsOwn ==
    \A t \in AppThreads :
        /\ Answered(t) =>
               /\ app.req[t].header # Absent =>
                      app.req[t].response_id = app.req[t].header
               /\ app.req[t].header = Absent =>
                      /\ app.req[t].response_id.src = "uuid4"
                      /\ app.req[t].response_id.id > app.req[t].uuid_before
               /\ app.req[t].logged = {app.req[t].response_id}
               /\ app.request_id_var[t] = Absent
        /\ InFlight(t) =>
               /\ app.request_id_var[t] = app.req[t].g_request_id
               /\ app.req[t].logged = {app.req[t].g_request_id}
        /\ \A u \in AppThreads \ {t} :
               (/\ Answered(t) \/ InFlight(t)
                /\ Answered(u) \/ InFlight(u)
                /\ app.req[t].header = Absent) =>
                   app.req[t].g_request_id # app.req[u].g_request_id

\* a request without the header answered on a thread that had served a
\* request with the header, while the other thread serves a third one
C26_Witness ==
    /\ app.started = 3 /\ app.uuids = 3
    /\ Answered("t1") /\ app.req["t1"].header = Absent
    /\ app.req["t1"].response_id = Uuid(3)
    /\ InFlight("t2") /\ app.req["t2"].header \in ClientIds

\* the seven rules of the configuration, in order, and their messages
Rules(c) ==
    <<c.max_retries >= 1, c.rollback_threshold >= 1,
      FloatGt(c.initial_backoff, 0),
      FloatGt(c.max_backoff, c.initial_backoff),
      FloatGt(c.backoff_multiplier, 1),
      c.health_check_timeout > 0,
      c.health_check_port >= 1 /\ c.health_check_port <= 65535>>
RuleMessages ==
    <<"max_retries must be >= 1", "rollback_threshold must be >= 1",
      "initial_backoff must be > 0", "max_backoff must be > initial_backoff",
      "backoff_multiplier must be > 1.0", "health_check_timeout must be > 0",
      "health_check_port must be between 1-65535">>

\* C27: validate accepts a configuration exactly when it satisfies the seven
\* rules; otherwise it fails with the message of the first rule violated, in
\* their order, and the orchestrator does not start.
C27_ValidateAcceptsIffRulesHold ==
    fn.op = "validate" =>
        LET rules == Rules(fn.config)
            violated == {i \in 1..7 : ~rules[i]}
        IN  /\ fn.result = None <=> violated = {}
            /\ violated # {} =>
                   /\ fn.result =
                          RuleMessages[CHOOSE i \in violated :
                                           \A j \in violated : i <= j]
                   /\ ~fn.starts

HcEnded == hc.pc \in {"returned", "raised"}

\* the state predicate of C28
C28_Healthy ==
    /\ hc.result =>
           /\ HcReturned /\ hc.reason = "healthy"
           /\ hc.answer = "ready_healthy"
    /\ hc.answer = "ready_healthy" => HcReturned /\ hc.result
    /\ (HcEnded /\ hc.reason \in {"gave_up", "api_error", "timeout", "error"}) =>
           ~hc.result

\* C28: check_deployment_health returns true only in a poll that finds the
\* ready replicas equal to the desired ones and the application check
\* passing, and at the first such poll; never on ready replicas alone, and
\* never after it gave up, met a cluster-API error or ran past the timeout.
C28_TrueOnlyWhenReadyAndHealthy ==
    /\ []C28_Healthy
    /\ [][/\ HcEnded => hc' = hc
          /\ (hc'.result /\ ~hc.result) =>
                 /\ hc.pc = "loop" /\ hc.now < hc.timeout
                 /\ hc'.polls = hc.polls + 1
                 /\ hc'.answer = "ready_healthy"]_vars

\* healthy at the third poll, after two polls with ready replicas and a
\* failing application check
C28_Witness ==
    /\ HcReturned /\ hc.result /\ hc.polls = 3 /\ hc.checks = 3
    /\ hc.app_health_failures = 2 /\ hc.answer = "ready_healthy"

\* the state predicate of C29, with the ways a call ends left out
C29_Counter ==
    /\ hc.app_health_failures = hc.run
    /\ hc.answer = "not_ready" => hc.app_health_failures = 0
    /\ hc.run <= 3
    /\ (HcReturned /\ hc.reason = "gave_up") <=> hc.run = 3

\* C29 as stated: the failure counter is the number of polls with ready
\* replicas and a failing application check since the last not-ready poll; the
\* call gives up exactly when that number reaches three; a call in which it
\* never does ends only by success or by the timeout.
C29_EndsBySuccessOrTimeout ==
    /\ C29_Counter
    /\ (HcEnded /\ hc.run < 3) => hc.reason \in {"healthy", "timeout"}

\* C29 amended: as above, and a call in which the number never reaches three
\* ends by success, by the timeout, or by an error of the cluster API in one
\* of its polls.
C29_ConsecutiveFailures ==
    /\ C29_Counter
    /\ (HcEnded /\ hc.run < 3) =>
           hc.reason \in {"healthy", "timeout", "api_error", "error"}
    /\ (HcEnded /\ hc.run < 3 /\ hc.answer \in {"not_ready", "ready_unhealthy"}) =>
           hc.reason = "timeout"

\* twenty failing checks in one call without giving up: a not-ready poll
\* came after every second one, and the timeout ended the call
C29_Witness ==
    /\ HcReturned /\ hc.reason = "timeout" /\ hc.timeout = 300
    /\ hc.polls = 30 /\ hc.checks = 20 /\ hc.run = 2
    /\ hc.answer = "ready_unhealthy"

\* C30: rollback_deployment replaces, in the image of the container named
\* like the deployment, everything after the last ':' by target_version and
\* keeps everything before it, for every image of the form repository:tag,
\* also when the repository contains a ':'; the images of the other
\* containers are unchanged, and both version labels become target_version.
C30_RewritesTagAfterLastColon ==
    fn.op = "rollback_patch" =>
        /\ Len(fn.body.containers) = Len(fn.deployment.containers)
        /\ \A i \in 1..Len(fn.deployment.containers) :
               LET before == fn.deployment.containers[i]
                   after == fn.body.containers[i]
               IN  /\ after.name = before.name
                   /\ before.name # fn.deployment_name =>
                          after.image = before.image
                   /\ (before.name = fn.deployment_name
                       /\ Len(before.image) >= 2) =>
                          after.image =
                              SubSeq(before.image, 1, Len(before.image) - 1)
                                  \o <<fn.target_version>>
        /\ fn.body.metadata_version = fn.target_version
        /\ fn.body.template_version = fn.target_version

(***************************************************************************)
(* Sequences of webhooks for one deployment_id.                            *)
(***************************************************************************)
StoredRunId(store, deployment_id) ==
    IF store[deployment_id] = Absent THEN None
    ELSE DictGet(store[deployment_id].metadata, "workflow_run_id")

\* the latest webhook was a failure report for a state that was there
LastFailedExisting == last.kind = "failed" /\ last.pre # None

\* a failure report for a stored state changes a stored metadata value only
\* to the value it supplies itself
C31_MergeKeepsOtherKeys ==
    \A d \in DeploymentIds :
        (/\ last'.kind = "failed" /\ last'.deployment_id = d
         /\ redis_deployment[d] # Absent /\ redis_deployment'[d] # Absent
         /\ streak'[d].n = streak[d].n + 1) =>
            \A k \in DOMAIN redis_deployment[d].metadata :
                /\ k \in DOMAIN redis_deployment'[d].metadata
                /\ redis_deployment'[d].metadata[k] # redis_deployment[d].metadata[k] =>
                       /\ k = "workflow_run_id"
                       /\ redis_deployment'[d].metadata[k] = streak'[d].run
                       /\ streak'[d].run # streak[d].run

\* C31: a failure webhook for a deployment_id that has persisted state has
\* its metadata merged into the stored metadata before the decision: the
\* retry it schedules uses the workflow_run_id of the most recent failure
\* webhook that supplied one, and the metadata keys it did not supply keep
\* their stored values.
C31_MetadataMergedBeforeDecision ==
    /\ [](LastFailedExisting =>
              /\ StoredRunId(redis_deployment, last.deployment_id) = last.run
              /\ last.result.action = "retry" =>
                     /\ last.result.workflow_run_id =
                            streak[last.deployment_id].run
                     /\ last.run = streak[last.deployment_id].run)
    /\ [][C31_MergeKeepsOtherKeys]_vars

\* a retry for run2 while a re-run of run1, scheduled by an earlier report
\* of the same deployment_id, is still pending
C31_Witness ==
    /\ LastFailedExisting /\ last.result.action = "retry"
    /\ last.result.workflow_run_id = "run2"
    /\ streak[last.deployment_id].retries = 2
    /\ \E t \in DOMAIN tasks : t.workflow_run_id = "run1"

\* the latest webhook was a failure report and handle_deployment_failure
\* returned
LastReturned == last.kind = "failed" /\ ~last.raised

\* C32: whenever handle_deployment_failure returns, the status persisted for
\* the deployment_id agrees with the returned action ('retry' with
\* RetryScheduled, 'rollback' with RolledBack, 'alert' with Failed), and the
\* persisted retry_count is the retry_count the decision was taken on.
C32_StatusAgreesWithAction ==
    LastReturned =>
        /\ last.result.action \in {"retry", "rollback", "alert"}
        /\ StoredStatus(redis_deployment, last.deployment_id) =
               CASE last.result.action = "retry" ->
                        DeploymentStatus["RETRY_SCHEDULED"]
                 [] last.result.action = "rollback" ->
                        DeploymentStatus["ROLLED_BACK"]
                 [] OTHER -> DeploymentStatus["FAILED"]
        /\ StoredCount(redis_deployment, last.deployment_id) = last.count
        /\ last.result.action = "retry" => last.result.retry_count = last.count

\* an alert after a rollback that failed, decided on the third report
C32_Witness ==
    /\ LastReturned /\ last.result.action = "alert"
    /\ last.rollback_result = "failure" /\ last.count = 3
    /\ StoredStatus(redis_deployment, last.deployment_id) = "failed"

\* C33: for failure reports of one deployment_id handled one at a time, the
\* persisted retry_count grows by exactly one per handled report, also for
\* reports that end in alert, and never decreases or restarts from zero,
\* including when a read of the state fails or the stored record cannot be
\* decoded.
C33_CountGrowsByOne ==
    [][\A d \in DeploymentIds :
           /\ StoredCount(redis_deployment', d) >= StoredCount(redis_deployment, d)
           /\ streak'[d].n = streak[d].n + 1 =>
                  StoredCount(redis_deployment', d) =
                      StoredCount(redis_deployment, d) + 1]_vars

RECURSIVE SumPosted(_)
SumPosted(rs) ==
    IF rs = {} THEN 0
    ELSE LET r == CHOOSE x \in rs : TRUE
         IN  posted[r] + SumPosted(rs \ {r})

\* C34: over any sequence of webhooks for one deployment_id (failures and
\* successes in any order, one at a time), at most max_retries failure
\* reports are answered 'retry': at most max_retries CI re-runs are ever
\* scheduled for it.
C34_AtMostMaxRetries ==
    \A d \in DeploymentIds :
        /\ streak[d].retries <= cfg.max_retries
        /\ BagCardinality(tasks) + SumPosted(RunIds) <= streak[d].retries
        /\ (last.kind = "failed" /\ last.deployment_id = d
            /\ last.result.action = "retry") => last.count <= cfg.max_retries

\* two reports were answered 'retry', a success webhook came, and a later
\* report, the fourth, is not answered 'retry'
C34_Witness ==
    /\ last.kind = "failed" /\ last.count = 4 /\ last.pre = "success"
    /\ last.result.action # "retry"
    /\ streak[last.deployment_id].retries = 2 /\ cfg.max_retries = 3

StoredPrevious(store, deployment_id) ==
    IF store[deployment_id] = Absent THEN None
    ELSE store[deployment_id].previous_version

\* C35: the previous_version of a deployment state is resolved once, when a
\* failure report creates the state, and no later webhook changes it (not a
\* success webhook that moves the successful-version marker, not a later
\* failure, not a rollback); a state created without a previous version
\* never reaches the rollback branch.
C35_PreviousVersionFixed ==
    [][\A d \in DeploymentIds :
           redis_deployment[d] # Absent =>
               /\ redis_deployment'[d] # Absent
               /\ StoredPrevious(redis_deployment', d) =
                      StoredPrevious(redis_deployment, d)
               /\ (/\ streak'[d].n = streak[d].n + 1
                   /\ StoredPrevious(redis_deployment, d) = None) =>
                      /\ last'.rollback_target = None
                      /\ last'.result.action # "rollback"
                      /\ last'.prev = None]_vars

\* the fourth report of a state created without a previous version, after
\* a success webhook has set the marker: an alert, and no rollback
C35_Witness ==
    /\ last.kind = "failed" /\ last.count = 4 /\ last.prev = None
    /\ redis_last_successful[<<"production", "sample-app">>] = "v1"
    /\ last.rollback_target = None /\ last.result.action = "alert"
    /\ StoredPrevious(redis_deployment, last.deployment_id) = None

\* C36: over any sequence of success and failure webhooks an automatic
\* rollback never targets the version that is failing: whenever the failure
\* handling calls rollback_deployment for a state, the target
\* previous_version differs from that state's version.
C36_RollbackTargetsOtherVersion ==
    (last.kind = "failed" /\ last.rollback_target # None) =>
        /\ redis_deployment[last.deployment_id] # Absent
        /\ last.rollback_target # redis_deployment[last.deployment_id].version

\* the pending re-run tasks for a run id
Pending(r) ==
    LET ts == {t \in DOMAIN tasks : t.workflow_run_id = r}
    IN  BagCardinality([t \in ts |-> tasks[t]])

MaxPendingPerRun == 3

\* a step sends requests only by running one pending task: one request for
\* that task's run id, the task is gone, and no webhook is answered in it
C37_OneRequestPerTask ==
    \A r \in RunIds :
        posted'[r] # posted[r] =>
            /\ posted'[r] = posted[r] + 1
            /\ Pending(r)' = Pending(r) - 1
            /\ \E t \in DOMAIN tasks :
                   /\ t.workflow_run_id = r /\ t.backoff_seconds > 0
                   /\ tasks' = tasks (-) SetToBag({t})
            /\ UNCHANGED <<last, redis_deployment, redis_last_successful>>

\* a step that answers a webhook removes no pending task
C37_NothingCancels ==
    last' # last =>
        /\ posted' = posted
        /\ \A t \in DOMAIN tasks :
               t \in DOMAIN tasks' /\ tasks'[t] >= tasks[t]

RECURSIVE Flatten(_)
Flatten(seqs) == IF seqs = << >> THEN << >> ELSE Head(seqs) \o Flatten(Tail(seqs))

Occurrences(seq, x) == Cardinality({i \in 1..Len(seq) : seq[i] = x})

\* C38: during one signal-driven shutdown each registered cleanup callable is
\* executed exactly once in total, over the run the signal handler starts
\* and the run of the process-exit hook together.
C38_EachCallableRunsOnce ==
    sd.pc = "exited" =>
        \A c \in Callables :
            Occurrences(Flatten(sd.runs), c.name) = Occurrences(HandlerNames, c.name)

\* C39: a manual rollback (POST /rollback), whether it succeeds or fails,
\* creates, modifies or deletes no persisted deployment state and no
\* successful-version marker: the retry_count, status and previous_version
\* of every tracked deployment are as before, and no re-run is scheduled.
C39_ManualRollbackLeavesStore ==
    [][(last' # last /\ last'.kind = "manual_rollback") =>
           /\ redis_deployment' = redis_deployment
           /\ redis_last_successful' = redis_last_successful
           /\ \A d \in DeploymentIds :
                  /\ StoredCount(redis_deployment', d) = StoredCount(redis_deployment, d)
                  /\ StoredStatus(redis_deployment', d) = StoredStatus(redis_deployment, d)
                  /\ StoredPrevious(redis_deployment', d) =
                         StoredPrevious(redis_deployment, d)
           /\ tasks' = tasks /\ posted' = posted
           /\ last'.http = IF last'.rollback_result = "success" THEN 200 ELSE 500]_vars

\* a manual rollback to v1 has succeeded while the state of d1 waits for
\* its second retry and the marker is v2: both are as they were
C39_Witness ==
    /\ last.kind = "manual_rollback" /\ last.http = 200
    /\ last.rollback_target = "v1"
    /\ StoredStatus(redis_deployment, "d1") = "retry_scheduled"
    /\ StoredCount(redis_deployment, "d1") = 3
    /\ redis_last_successful[<<"production", "sample-app">>] = "v2"

\* the latest webhook had status 'failed' and a failure_type that is none of
\* the five known ones (of the webhooks that are not handled as failures,
\* only those with status 'failed' carry a failure_type)
LastUnknownType ==
    /\ last.kind \in {"invalid", "acknowledged"}
    /\ last.failure_type # None
    /\ ~EnumHas(FailureType, last.failure_type)

\* a webhook that is not handled as a failure or a success leaves the store,
\* the markers and the re-run tasks as they were
C40_StoreUnchanged ==
    (last' # last /\ last'.kind \in {"invalid", "acknowledged"}) =>
        /\ redis_deployment' = redis_deployment
        /\ redis_last_successful' = redis_last_successful
        /\ tasks' = tasks /\ posted' = posted
        /\ \A d \in DeploymentIds :
               /\ StoredCount(redis_deployment', d) = StoredCount(redis_deployment, d)
               /\ streak'[d].n = streak[d].n
               /\ streak'[d].retries = streak[d].retries
        /\ last'.result = NoResult /\ last'.rollback_target = None
        /\ last'.scheduled = 0

\* C40: a webhook with status 'failed' whose failure_type is not one of the
\* five known failure types is answered with HTTP 500 and leaves the
\* persisted store unchanged: no state is created or modified, retry_count
\* is not incremented, and no retry or rollback is started.
C40_UnknownTypeAnswered500 ==
    /\ [](LastUnknownType => last.http = 500)
    /\ [][C40_StoreUnchanged]_vars

\* C40 amended: such a webhook leaves the persisted store unchanged and
\* starts no retry or rollback; it is answered with HTTP 500 when its
\* failure_type is a non-empty string, and with HTTP 200 'acknowledged' when
\* its failure_type is the empty string.
C40_UnknownTypeLeavesStore ==
    /\ [](LastUnknownType =>
              /\ last.kind = "invalid" <=> ~Falsy(last.failure_type)
              /\ last.http = IF Falsy(last.failure_type) THEN 200 ELSE 500)
    /\ [][C40_StoreUnchanged]_vars

\* failure_type 'out_of_memory' was answered 500 while the state of the
\* deployment waits for its second retry
C40_Witness ==
    /\ LastUnknownType /\ last.failure_type = "out_of_memory"
    /\ last.http = 500 /\ last.pre = "retry_scheduled"
    /\ StoredCount(redis_deployment, last.deployment_id) = 3
    /\ BagCardinality(tasks) = 2

====
